---- MODULE Spec2Model ----
(***************************************************************************)
(* docker-reader-mcp: the tool-call handler, the resource read handler,    *)
(* the DockerClient methods they call, the validation schemas and the      *)
(* error classifier.                                                       *)
(*                                                                         *)
(* Text is a sequence of atoms.  An atom is either one special character   *)
(* (quote, backslash, space, slash, ...) or a chunk of ordinary characters *)
(* (a word such as "docker", or one letter or digit where the code looks   *)
(* at single characters, as in identifiers and container ids).             *)
(***************************************************************************)
EXTENDS Integers, Sequences, FiniteSets, TLC

VARIABLES
    env,        \* the container runtime: CLI installed, daemon up, containers
    pc,         \* position of the handler in flight
    req,        \* the request being served
    spawned,    \* command lines handed to execAsync in this invocation, in order
    procs,      \* what the process layer gave back for each of them, in order
    resolved,   \* the record findContainerByName returned, <<>> when none
    result,     \* value returned by the last DockerClient method, <<>> when none
    response,   \* what the handler gave back to the dispatcher, <<>> when none
    input,      \* argument of the function under unit check
    output,     \* its value, <<>> before it is applied
    calls       \* the tool calls served side by side, each with its own locals
                \* and the state of its session; <<>> where one call is served

vars == <<env, pc, req, spawned, procs, resolved, result, response, input, output, calls>>

handlerVars == <<env, pc, req, spawned, procs, resolved, result, response, calls>>

unitVars == <<input, output>>

----------------------------------------------------------------------------
(* Bounds *)

\* longest argument given to escapeShellArg in the unit check
MaxArgLen == 3

\* most containers the runtime holds
MaxContainers == 2

----------------------------------------------------------------------------
(* Text helpers: what the JavaScript string methods do *)

\* String.prototype.startsWith
StartsWith(s, p) ==
    /\ Len(p) <= Len(s)
    /\ SubSeq(s, 1, Len(p)) = p

\* String.prototype.includes
Includes(s, p) ==
    \E i \in 0..(Len(s) - Len(p)) : SubSeq(s, i + 1, i + Len(p)) = p

\* Array.prototype.join over text
RECURSIVE Join(_, _)
Join(parts, sep) ==
    IF parts = <<>> THEN <<>>
    ELSE IF Len(parts) = 1 THEN parts[1]
    ELSE parts[1] \o sep \o Join(Tail(parts), sep)

\* all sequences over S of length at most n
RECURSIVE SeqsUpTo(_, _)
SeqsUpTo(S, n) ==
    IF n = 0 THEN {<<>>}
    ELSE LET shorter == SeqsUpTo(S, n - 1)
         IN  shorter \cup {Append(s, x) : s \in shorter, x \in S}

SP == <<" ">>

\* the white space String.prototype.trim removes
WhiteSpace == {" ", "\t", "\n", "\r"}

\* String.prototype.trim
Trim(s) ==
    LET kept == {i \in 1..Len(s) : s[i] \notin WhiteSpace}
    IN  IF kept = {} THEN <<>>
        ELSE SubSeq(s, CHOOSE i \in kept : \A j \in kept : i <= j,
                       CHOOSE i \in kept : \A j \in kept : j <= i)

\* String.prototype.split on a one-character separator: the pieces between
\* the separators, empty pieces included
Split(s, sep) ==
    LET at == {i \in 1..Len(s) : s[i] = sep}
        \* position of the k-th separator; 0 before the first piece and
        \* Len(s) + 1 after the last
        cut(k) == IF k = 0 THEN 0
                  ELSE IF k > Cardinality(at) THEN Len(s) + 1
                  ELSE CHOOSE i \in at : Cardinality({j \in at : j < i}) = k - 1
    IN  [k \in 1..(Cardinality(at) + 1) |-> SubSeq(s, cut(k - 1) + 1, cut(k) - 1)]

----------------------------------------------------------------------------
(* DockerClient.escapeShellArg *)

\* arg.replace(/'/g, "'\\''"): every quote becomes quote, backslash, quote, quote
RECURSIVE ReplaceQuotes(_)
ReplaceQuotes(s) ==
    IF s = <<>> THEN <<>>
    ELSE (IF Head(s) = "'" THEN <<"'", "\\", "'", "'">> ELSE <<Head(s)>>)
         \o ReplaceQuotes(Tail(s))

\* a slip that drops the backslash of the replacement
escapeShellArg_NoBackslash(arg) ==
    LET RECURSIVE R(_)
        R(s) == IF s = <<>> THEN <<>>
                ELSE (IF Head(s) = "'" THEN <<"'", "'", "'">> ELSE <<Head(s)>>)
                     \o R(Tail(s))
    IN  <<"'">> \o R(arg) \o <<"'">>

escapeShellArg(arg) == <<"'">> \o ReplaceQuotes(arg) \o <<"'">>

----------------------------------------------------------------------------
(* The shell that child_process.exec hands the command line to (/bin/sh -c):
   POSIX word parsing with single quotes and backslash. *)

\* the atom of the backquote character
Backtick == "<backquote>"

\* characters the shell acts on when they stand unquoted
ShellMeta == {";", "$", "(", ")", Backtick, "|", "&", "<", ">", "*", "?", "\n"}

\* The scanner's state: pos is the position of the next character to read;
\* mode is "plain", "single", "double", or one of the two modes right after a
\* backslash ("escape" outside quotes, "descape" inside double quotes); cur is
\* the word being built, open whether a word has begun; words are the
\* finished words; meta and bare record what was seen unquoted.
ShellStart ==
    [pos |-> 1, mode |-> "plain", cur |-> <<>>, open |-> FALSE, words |-> <<>>,
     meta |-> FALSE, bare |-> FALSE]

\* inside single quotes everything up to the next quote is literal
SingleStep(s, c) ==
    IF c = "'" THEN [s EXCEPT !.mode = "plain"]
    ELSE [s EXCEPT !.cur = Append(@, c)]

\* inside double quotes backslash still escapes, $ and backquote still expand
DoubleStep(s, c) ==
    IF c = "\"" THEN [s EXCEPT !.mode = "plain"]
    ELSE IF c = "\\" THEN [s EXCEPT !.mode = "descape"]
    ELSE IF c \in {"$", Backtick} THEN [s EXCEPT !.meta = TRUE]
    ELSE [s EXCEPT !.cur = Append(@, c)]

\* the character after a backslash is literal
EscapeStep(s, c) ==
    [s EXCEPT !.mode = IF s.mode = "descape" THEN "double" ELSE "plain",
              !.cur = Append(@, c), !.open = TRUE]

PlainStep(s, c) ==
    IF c = "'" THEN [s EXCEPT !.mode = "single", !.open = TRUE]
    ELSE IF c = "\"" THEN [s EXCEPT !.mode = "double", !.open = TRUE]
    ELSE IF c = "\\" THEN [s EXCEPT !.mode = "escape"]
    ELSE IF c = " " THEN
        [s EXCEPT !.words = IF s.open THEN Append(@, s.cur) ELSE @,
                  !.cur = <<>>, !.open = FALSE]
    ELSE IF c \in ShellMeta THEN [s EXCEPT !.meta = TRUE]
    ELSE [s EXCEPT !.cur = Append(@, c), !.open = TRUE, !.bare = TRUE]

\* reading the character at s.pos
ShellStep(s, c) ==
    LET t == CASE s.mode = "single" -> SingleStep(s, c)
               [] s.mode = "double" -> DoubleStep(s, c)
               [] s.mode \in {"escape", "descape"} -> EscapeStep(s, c)
               [] OTHER -> PlainStep(s, c)
    IN  [t EXCEPT !.pos = s.pos + 1]

\* the scan from s.pos up to position hi, first half then second half
RECURSIVE ShellScan(_, _, _)
ShellScan(line, s, hi) ==
    IF s.pos > hi THEN s
    ELSE IF s.pos = hi THEN ShellStep(s, line[hi])
    ELSE ShellScan(line, ShellScan(line, s, (s.pos + hi) \div 2), hi)

\* the words of the line; a backslash that ends the line stands for itself
ShellParse(line) ==
    LET s == ShellScan(line, ShellStart, Len(line))
        cur == IF s.mode = "descape" THEN Append(s.cur, "\\") ELSE s.cur
    IN  [words |-> IF s.open THEN Append(s.words, cur) ELSE s.words,
         meta |-> s.meta,
         bare |-> s.bare \/ s.mode = "escape",
         unterminated |-> s.mode \in {"single", "double", "descape"}]

----------------------------------------------------------------------------
(* Unit check of escapeShellArg *)

\* quote, backslash, the shell metacharacters of the injection cases, space,
\* and an ordinary word
ArgAlphabet == {"'", "\\", ";", "$", "(", ")", Backtick, " ", "world"}

ArgStrings == SeqsUpTo(ArgAlphabet, MaxArgLen)

NoUnit == [op |-> "none", arg |-> <<>>]

InitEscape ==
    /\ input \in {[op |-> "escapeShellArg", arg |-> a] : a \in ArgStrings}
    /\ output = <<>>
    /\ env = [cli |-> TRUE, daemon |-> TRUE, containers |-> <<>>]
    /\ pc = "idle"
    /\ req = <<>>
    /\ spawned = <<>>
    /\ procs = <<>>
    /\ resolved = <<>>
    /\ result = <<>>
    /\ response = <<>>
    /\ calls = <<>>

ApplyEscape ==
    /\ input.op = "escapeShellArg"
    /\ output = <<>>
    /\ output' = <<escapeShellArg(input.arg)>>
    /\ UNCHANGED <<input, handlerVars>>

NextEscape == ApplyEscape

SpecEscape == InitEscape /\ [][NextEscape]_vars

\* C2: for every argument over an alphabet with quote, backslash, ; $ ( ),
\* backquote
\* and space, the shell parses the escaper's output into exactly one word,
\* that word is the argument itself, no metacharacter is acted on, no
\* character stands outside a quoted region and no quote is left open.
C2_EscapeRoundTrip ==
    output # <<>> =>
        LET p == ShellParse(output[1])
        IN  /\ p.words = <<input.arg>>
            /\ ~p.meta
            /\ ~p.bare
            /\ ~p.unterminated

\* an argument with a quote between other characters and a metacharacter
C2_Witness ==
    /\ output # <<>>
    /\ Len(input.arg) = MaxArgLen
    /\ \E i \in 1..Len(input.arg) : input.arg[i] = "'"
    /\ \E i \in 1..Len(input.arg) : input.arg[i] \in ShellMeta
    /\ Len(output[1]) = MaxArgLen + 5

----------------------------------------------------------------------------
(* Character classes of the validation patterns, over atoms *)

DigitAtoms == {"0", "1", "2", "5", "7", "30", "2024", "01"}

HexAtoms == DigitAtoms \cup {"a", "b", "c", "d", "e", "f"}

AlnumAtoms ==
    HexAtoms \cup {"h", "m", "s", "x", "web", "is", "not", "running", "sh", "echo",
                   "hello", "world", "exit", "root", "app", "KEY", "v", "T", "Z"}

AllIn(s, S) == \A i \in 1..Len(s) : s[i] \in S

\* an absent optional field is <<>>, a present one <<value>>
Absent == <<>>

Present(v) == <<v>>

----------------------------------------------------------------------------
(* validation.ts *)

\* /^[a-zA-Z0-9][a-zA-Z0-9._-]*$/ with min(1)
ContainerNameSchema(val) ==
    /\ Len(val) >= 1
    /\ val[1] \in AlnumAtoms
    /\ AllIn(val, AlnumAtoms \cup {".", "_", "-"})

\* /^[a-fA-F0-9]+$/ with min(1)
ContainerIdSchema(val) ==
    /\ Len(val) >= 1
    /\ AllIn(val, HexAtoms)

\* a slip that forgets the slash-prefixed form
IdentifierRefine_NoSlash(val) ==
    \/ ContainerNameSchema(val)
    \/ ContainerIdSchema(val)

\* the refinement of ContainerIdentifierSchema
IdentifierRefine(val) ==
    \/ ContainerNameSchema(val)
    \/ ContainerIdSchema(val)
    \/ StartsWith(val, <<"/">>)

\* messages of the issues ContainerIdentifierSchema raises: the min(1) check
\* leaves the value dirty, not aborted, so the refinement runs as well
ContainerIdentifierSchema(val) ==
    (IF Len(val) < 1 THEN <<(<<"Container identifier cannot be empty">>)>> ELSE <<>>)
    \o (IF ~IdentifierRefine(val)
        THEN <<(<<"Must be a valid container name or ID">>)>> ELSE <<>>)

\* a JavaScript number is [int |-> n, half |-> b]: n, plus one half when b
Num(n) == [int |-> n, half |-> FALSE]

IsInt(x) == ~x.half

\* a slip that lets zero through
LogLinesSchema_AcceptZero(x) ==
    (IF ~IsInt(x) THEN <<(<<"Lines must be an integer">>)>> ELSE <<>>)
    \o (IF x.int < 0 THEN <<(<<"Lines must be at least 1">>)>> ELSE <<>>)
    \o (IF x.int > 10000 \/ (x.int = 10000 /\ x.half)
        THEN <<(<<"Lines cannot exceed 10000">>)>> ELSE <<>>)

\* LogLinesSchema: int, min 1, max 10000; every failed check raises its issue
LogLinesSchema(x) ==
    (IF ~IsInt(x) THEN <<(<<"Lines must be an integer">>)>> ELSE <<>>)
    \o (IF x.int < 1 THEN <<(<<"Lines must be at least 1">>)>> ELSE <<>>)
    \o (IF x.int > 10000 \/ (x.int = 10000 /\ x.half)
        THEN <<(<<"Lines cannot exceed 10000">>)>> ELSE <<>>)

\* /^\d+[smhd]$/
RelativeTime(val) ==
    /\ Len(val) >= 2
    /\ AllIn(SubSeq(val, 1, Len(val) - 1), DigitAtoms)
    /\ val[Len(val)] \in {"s", "m", "h", "d"}

IsoDate2024 == <<"2024", "-", "01", "-", "01">>

IsoEpoch == <<"1970-01-01T00:00:00Z">>

\* Date.parse on the timestamps the model uses: <<t>> for a date, t counted
\* in seconds since the epoch to stay within TLC's integers, and <<>> for NaN
DateParse(val) ==
    CASE val = IsoDate2024 -> <<1704067200>>
      [] val = IsoEpoch -> <<0>>
      [] OTHER -> <<>>

\* JavaScript truthiness of a number: neither NaN nor zero
TruthyNumber(r) == r # <<>> /\ r[1] # 0

\* the refinement of TimestampSchema
TimestampRefine(val) ==
    IF RelativeTime(val) THEN TRUE
    ELSE IF TruthyNumber(DateParse(val)) THEN TRUE
    ELSE FALSE

TimestampSchema(val) ==
    IF TimestampRefine(val) THEN <<>>
    ELSE <<(<<"Invalid timestamp format. Use relative time (e.g., \"1h\", \"30m\") or ISO date">>)>>

\* issues of one field, each with the field's path
AtPath(path, msgs) == [i \in 1..Len(msgs) |-> [path |-> path, message |-> msgs[i]]]

\* issues of an array field: the issues of the elements lo..hi, each under
\* path.index, in the order of the elements (the range is halved, so that a
\* long array is not walked one element deep at a time)
RECURSIVE ElementIssues(_, _, _, _)
ElementIssues(path, bad, lo, hi) ==
    IF lo > hi THEN <<>>
    ELSE IF lo = hi THEN AtPath(path \o <<".", ToString(lo - 1)>>, bad[lo])
    ELSE ElementIssues(path, bad, lo, (lo + hi) \div 2)
         \o ElementIssues(path, bad, (lo + hi) \div 2 + 1, hi)

\* .min(1) and .max(100) of CommandSchema
CommandMin == 1

CommandMax == 100

\* a slip that leaves the upper limit out
CommandSchema_NoMax(cmd) ==
    (IF Len(cmd) < CommandMin
     THEN AtPath(<<"command">>, <<(<<"Command must contain at least one element">>)>>)
     ELSE <<>>)
    \o ElementIssues(<<"command">>,
           [i \in 1..Len(cmd) |->
               IF Len(cmd[i]) < 1 THEN <<(<<"Command arguments cannot be empty">>)>>
               ELSE <<>>],
           1, Len(cmd))

\* CommandSchema: array of non-empty strings, 1 to 100 of them; the array
\* raises the issues of its length before those of its elements
CommandSchema(cmd) ==
    (IF Len(cmd) < CommandMin
     THEN AtPath(<<"command">>, <<(<<"Command must contain at least one element">>)>>)
     ELSE <<>>)
    \o (IF Len(cmd) > CommandMax
        THEN AtPath(<<"command">>, <<(<<"Command cannot exceed 100 arguments">>)>>)
        ELSE <<>>)
    \o ElementIssues(<<"command">>,
           [i \in 1..Len(cmd) |->
               IF Len(cmd[i]) < 1 THEN <<(<<"Command arguments cannot be empty">>)>>
               ELSE <<>>],
           1, Len(cmd))

\* /^[a-zA-Z_][a-zA-Z0-9_]*=.*$/ : a key, an equals sign, anything
EnvVarSchema(val) ==
    IF \E k \in 1..Len(val) :
           /\ val[k] = "="
           /\ k >= 2
           /\ val[1] \in (AlnumAtoms \ DigitAtoms) \cup {"_"}
           /\ AllIn(SubSeq(val, 1, k - 1), AlnumAtoms \cup {"_"})
    THEN <<>>
    ELSE <<(<<"Environment variable must be in format KEY=VALUE">>)>>

\* user[:group] over alphanumerics, underscore and hyphen, or uid[:gid]
UserWord(w) ==
    /\ Len(w) >= 1
    /\ w[1] \in AlnumAtoms \cup {"_"}
    /\ AllIn(w, AlnumAtoms \cup {"_", "-"})

UserPattern(val) ==
    \/ UserWord(val)
    \/ \E k \in 1..Len(val) :
           /\ val[k] = ":"
           /\ UserWord(SubSeq(val, 1, k - 1))
           /\ UserWord(SubSeq(val, k + 1, Len(val)))

UserSchema(val) ==
    (IF Len(val) < 1 THEN <<(<<"User cannot be empty">>)>> ELSE <<>>)
    \o (IF ~UserPattern(val)
        THEN <<(<<"User must be in format user[:group] or uid[:gid]">>)>> ELSE <<>>)

WorkingDirSchema(val) ==
    (IF Len(val) < 1 THEN <<(<<"Working directory cannot be empty">>)>> ELSE <<>>)
    \o (IF ~StartsWith(val, <<"/">>)
        THEN <<(<<"Working directory must be an absolute path starting with /">>)>>
        ELSE <<>>)

\* the object schemas: the issues of the fields, in the order of the schema
ListContainersSchema(args) == <<>>

ReadLogsSchema(args) ==
    AtPath(<<"container">>, ContainerIdentifierSchema(args.container))
    \o (IF args.lines = Absent THEN <<>>
        ELSE AtPath(<<"lines">>, LogLinesSchema(args.lines[1])))
    \o (IF args.since = Absent THEN <<>>
        ELSE AtPath(<<"since">>, TimestampSchema(args.since[1])))
    \o (IF args.until = Absent THEN <<>>
        ELSE AtPath(<<"until">>, TimestampSchema(args.until[1])))

InspectContainerSchema(args) ==
    AtPath(<<"container">>, ContainerIdentifierSchema(args.container))

ContainerStatsSchema(args) ==
    AtPath(<<"container">>, ContainerIdentifierSchema(args.container))

ExecCommandSchema(args) ==
    AtPath(<<"container">>, ContainerIdentifierSchema(args.container))
    \o CommandSchema(args.command)
    \o (IF args.workingDir = Absent THEN <<>>
        ELSE AtPath(<<"workingDir">>, WorkingDirSchema(args.workingDir[1])))
    \o (IF args.env = Absent THEN <<>>
        ELSE ElementIssues(<<"env">>,
                 [i \in 1..Len(args.env[1]) |-> EnvVarSchema(args.env[1][i])],
                 1, Len(args.env[1])))
    \o (IF args.user = Absent THEN <<>>
        ELSE AtPath(<<"user">>, UserSchema(args.user[1])))

\* the defaults the schemas fill in
DefaultLines == 100

ParsedLines(args) == IF args.lines = Absent THEN Num(DefaultLines) ELSE args.lines[1]

----------------------------------------------------------------------------
(* errors.ts *)

DockerError(message) == [name |-> "DockerError", message |-> message, issues |-> <<>>]

ContainerNotFoundError(containerIdentifier) ==
    [name |-> "ContainerNotFoundError",
     message |-> <<"Container '">> \o containerIdentifier \o <<"' not found">>,
     issues |-> <<>>]

DockerNotAvailableMessage ==
    <<"Docker is not available. Please ensure Docker is installed and running.">>

DockerNotAvailableError ==
    [name |-> "DockerNotAvailableError", message |-> DockerNotAvailableMessage,
     issues |-> <<>>]

PlainError(message) == [name |-> "Error", message |-> message, issues |-> <<>>]

ZodError(issues) == [name |-> "ZodError", message |-> <<>>, issues |-> issues]

\* the texts the classifier looks for
PermissionDenied == <<"permission", " ", "denied">>

CannotConnect == <<"Cannot connect to the Docker daemon">>

IsNotRunning == <<"is", " ", "not", " ", "running">>

ContainerIsNotRunning == <<"container", " ">> \o IsNotRunning

NoSuchContainer == <<"No such container">>

CommandNotFound == <<"command not found">>

isDockerPermissionError(error) ==
    Includes(error.message, PermissionDenied) \/ Includes(error.message, CannotConnect)

isContainerNotRunningError(error) ==
    Includes(error.message, IsNotRunning) \/ Includes(error.message, ContainerIsNotRunning)

PermissionDeniedText ==
    <<"Docker permission denied. Please ensure your user has permission to access Docker or run with appropriate privileges.">>

NotRunningText ==
    <<"Container is not running. Use \"all: true\" to include stopped containers.">>

NotFoundText ==
    <<"Container not found. Check the container name or ID and try again.">>

NotInstalledText ==
    <<"Docker command not found. Please ensure Docker is installed and in your PATH.">>

\* a slip that looks for the missing container before the stopped one
formatDockerError_NotFoundFirst(error) ==
    IF isDockerPermissionError(error) THEN PermissionDeniedText
    ELSE IF Includes(error.message, NoSuchContainer) THEN NotFoundText
    ELSE IF isContainerNotRunningError(error) THEN NotRunningText
    ELSE IF Includes(error.message, CommandNotFound) THEN NotInstalledText
    ELSE error.message

\* every error the handlers catch is an Error instance
formatDockerError(error) ==
    IF isDockerPermissionError(error) THEN PermissionDeniedText
    ELSE IF isContainerNotRunningError(error) THEN NotRunningText
    ELSE IF Includes(error.message, NoSuchContainer) THEN NotFoundText
    ELSE IF Includes(error.message, CommandNotFound) THEN NotInstalledText
    ELSE error.message

----------------------------------------------------------------------------
(* Command lines.  A command line is kept as the sequence of the pieces the
   template literals splice together, each with where its value came from
   ("program", "listing" or "caller"); the text handed to execAsync is their
   concatenation. *)

Fixed(t) == [text |-> t, from |-> "program", value |-> t]

\* a value with its origin, as the handlers pass it to DockerClient
FromCaller(v) == [value |-> v, from |-> "caller"]

FromListing(v) == [value |-> v, from |-> "listing"]

\* ${x}: the value spliced as it is
Raw(x) == [text |-> x.value, from |-> x.from, value |-> x.value]

\* ${this.escapeShellArg(x)}
Escaped(x) == [text |-> escapeShellArg(x.value), from |-> x.from, value |-> x.value]

RECURSIVE Line(_)
Line(parts) == IF parts = <<>> THEN <<>> ELSE Head(parts).text \o Line(Tail(parts))

Command(kind, parts) == [kind |-> kind, parts |-> parts, line |-> Line(parts)]

----------------------------------------------------------------------------
(* docker-client.ts: the command each method builds *)

isDockerAvailable_Command == Command("probe", <<Fixed(<<"docker", " ", "--version">>)>>)

FormatFlag ==
    <<"--format", " ", "\"",
      "{{.ID}}\t{{.Names}}\t{{.Image}}\t{{.Status}}\t{{.Ports}}\t{{.CreatedAt}}\t{{.Command}}",
      "\"">>

listContainers_Command(all) ==
    Command("ps", <<Fixed(<<"docker", " ", "ps", " ">>),
                    Fixed(IF all THEN <<"-a">> ELSE <<>>),
                    Fixed(SP \o FormatFlag)>>)

\* if (lines): a number is truthy unless it is zero
TruthyNum(x) == x.int # 0 \/ x.half

NumText(x) == <<ToString(x.int)>> \o (IF x.half THEN <<".5">> ELSE <<>>)

\* if (since): an optional string is truthy when present and non-empty
TruthyOpt(o) == o # Absent /\ o[1].value # <<>>

getContainerLogs_Command(options) ==
    Command("logs",
        <<Fixed(<<"docker", " ", "logs", " ">>), Raw(options.containerId)>>
        \o (IF TruthyNum(options.lines)
            THEN <<Fixed(<<" ", "--tail", " ">> \o NumText(options.lines))>> ELSE <<>>)
        \o (IF TruthyOpt(options.since)
            THEN <<Fixed(<<" ", "--since", " ">>), Raw(options.since[1])>> ELSE <<>>)
        \o (IF TruthyOpt(options.until)
            THEN <<Fixed(<<" ", "--until", " ">>), Raw(options.until[1])>> ELSE <<>>)
        \o (IF options.timestamps THEN <<Fixed(<<" ", "--timestamps">>)>> ELSE <<>>))

inspectContainer_Command(containerId) ==
    Command("inspect", <<Fixed(<<"docker", " ", "inspect", " ">>), Raw(containerId)>>)

StatsFormat ==
    <<"--format", " ", "\"",
      "table {{.Container}}\t{{.CPUPerc}}\t{{.MemUsage}}\t{{.MemPerc}}\t{{.NetIO}}\t{{.BlockIO}}",
      "\"">>

getContainerStats_Command(containerId) ==
    Command("stats", <<Fixed(<<"docker", " ", "stats", " ">>), Raw(containerId),
                       Fixed(<<" ", "--no-stream", " ">> \o StatsFormat)>>)

RECURSIVE EachEscaped(_, _)
EachEscaped(prefix, xs) ==
    IF xs = <<>> THEN <<>>
    ELSE <<Fixed(prefix), Escaped(Head(xs))>> \o EachEscaped(prefix, Tail(xs))

\* a slip that joins the command with blanks and escapes it as one value
execCommand_Command_JoinedCommand(options) ==
    Command("exec",
        <<Fixed(<<"docker", " ", "exec">>)>>
        \o (IF options.interactive THEN <<Fixed(<<" ", "-it">>)>> ELSE <<>>)
        \o (IF TruthyOpt(options.workingDir)
            THEN <<Fixed(<<" ", "--workdir", " ">>), Escaped(options.workingDir[1])>>
            ELSE <<>>)
        \o (IF TruthyOpt(options.user)
            THEN <<Fixed(<<" ", "--user", " ">>), Escaped(options.user[1])>> ELSE <<>>)
        \o (IF options.privileged THEN <<Fixed(<<" ", "--privileged">>)>> ELSE <<>>)
        \o (IF options.env # Absent /\ Len(options.env[1]) > 0
            THEN EachEscaped(<<" ", "--env", " ">>, options.env[1]) ELSE <<>>)
        \o <<Fixed(SP), Escaped(options.containerId)>>
        \o <<Fixed(SP),
             Escaped(FromCaller(Join([i \in 1..Len(options.command) |->
                                         options.command[i].value], SP)))>>)

execCommand_Command(options) ==
    Command("exec",
        <<Fixed(<<"docker", " ", "exec">>)>>
        \o (IF options.interactive THEN <<Fixed(<<" ", "-it">>)>> ELSE <<>>)
        \o (IF TruthyOpt(options.workingDir)
            THEN <<Fixed(<<" ", "--workdir", " ">>), Escaped(options.workingDir[1])>>
            ELSE <<>>)
        \o (IF TruthyOpt(options.user)
            THEN <<Fixed(<<" ", "--user", " ">>), Escaped(options.user[1])>> ELSE <<>>)
        \o (IF options.privileged THEN <<Fixed(<<" ", "--privileged">>)>> ELSE <<>>)
        \o (IF options.env # Absent /\ Len(options.env[1]) > 0
            THEN EachEscaped(<<" ", "--env", " ">>, options.env[1]) ELSE <<>>)
        \o <<Fixed(SP), Escaped(options.containerId)>>
        \o EachEscaped(SP, options.command))

----------------------------------------------------------------------------
(* The container runtime and the process layer (execAsync = promisify(exec)):
   what running a command line gives back.  The promisified exec resolves
   with {stdout, stderr} on exit status 0 and otherwise rejects with an error
   that carries code, stdout and stderr, the two streams always defined. *)

NumCode(n) == [type |-> "number", n |-> n, tag |-> ""]

NullCode == [type |-> "null", n |-> 0, tag |-> ""]

TagCode(t) == [type |-> "string", n |-> 0, tag |-> t]

Resolved(stdout, stderr) ==
    [status |-> "resolved", code |-> NumCode(0), stdout |-> stdout, stderr |-> stderr,
     streams |-> TRUE, cause |-> "ok"]

Rejected(code, stdout, stderr, cause) ==
    [status |-> "rejected", code |-> code, stdout |-> stdout, stderr |-> stderr,
     streams |-> TRUE, cause |-> cause]

\* error.message of a rejection
CommandFailed(line, proc) == <<"Command failed: ">> \o line \o <<"\n">> \o proc.stderr

\* the shell finds no docker binary
NoCli == Rejected(NumCode(127), <<>>, <<"sh: docker: ", "command not found">>, "nocli")

\* the CLI cannot reach the daemon
DaemonDown ==
    Rejected(NumCode(1), <<>>,
             CannotConnect \o <<" at unix:///var/run/docker.sock. Is the docker daemon running?">>,
             "daemon")

\* the fields of one line of docker ps output; the runtime prints the
\* command field in double quotes, and no ports for a container without any
PsFields(c) ==
    <<c.id, c.name, <<"nginx">>, IF c.running THEN <<"Up">> ELSE <<"Exited">>,
      <<>>, <<"2024-01-01">>, <<"\"", "nginx", "\"">>>>

\* one line of the output: the fields with tabs between, then a newline
PsLine(fields) == Join(fields, <<"\t">>) \o <<"\n">>

\* stdout of docker ps: a line for every container shown
RECURSIVE Shown(_, _)
Shown(containers, all) ==
    IF containers = <<>> THEN <<>>
    ELSE (IF all \/ Head(containers).running THEN PsLine(PsFields(Head(containers)))
          ELSE <<>>)
         \o Shown(Tail(containers), all)

\* the runtime's own lookup of a container reference: full id, then name,
\* then id prefix
Lookup(containers, ref) ==
    LET byId == {i \in 1..Len(containers) : containers[i].id = ref}
        byName == {i \in 1..Len(containers) :
                      containers[i].name = ref \/ <<"/">> \o containers[i].name = ref}
        byPrefix == {i \in 1..Len(containers) : ref # <<>> /\ StartsWith(containers[i].id, ref)}
        hit == IF byId # {} THEN byId
               ELSE IF byName # {} THEN byName
               ELSE IF Cardinality(byPrefix) = 1 THEN byPrefix
               ELSE {}
    IN  IF hit = {} THEN <<>> ELSE <<containers[CHOOSE i \in hit : TRUE]>>

NoSuch(ref) ==
    Rejected(NumCode(1), <<>>, <<"Error response from daemon: ">> \o NoSuchContainer
                               \o <<":", " ">> \o ref, "nosuch")

NotRunning(ref) ==
    Rejected(NumCode(1), <<>>, <<"Error response from daemon: ", "container", " ">> \o ref
                               \o <<" ">> \o IsNotRunning, "notrunning")

\* the command fails after it has printed part of its output: the
\* connection to the daemon is lost under way
Interrupted(stdout) ==
    Rejected(NumCode(1), stdout, <<"error during connect: ", "unexpected EOF">>,
             "interrupted")

\* docker inspect of an unknown reference prints an empty array and fails
InspectNoSuch(ref) ==
    Rejected(NumCode(1), <<"[", "]">>, <<"Error: No such object: ">> \o ref, "nosuch")

\* exit statuses of the user's command in the model
UserExitCodes == {0, 2, 7}

\* what the user's command may print
Outputs == {<<>>, <<"out">>}

\* docker inspect prints a JSON array with one document per reference
InspectStdout(c) == <<"[", "{\"Id\":\"">> \o c.id \o <<"\"}", "]">>

\* outcomes of the launched user's command
UserCommandOutcomes ==
    {Resolved(o, <<>>) : o \in Outputs}
    \cup {Rejected(NumCode(n), <<>>, <<"err">>, "exit") : n \in UserExitCodes \ {0}}
    \cup {Rejected(NullCode, <<"out">>, <<>>, "signal"),
          Rejected(TagCode("ERR_CHILD_PROCESS_STDIO_MAXBUFFER"), <<"out">>, <<>>, "maxbuffer")}

\* failures of docker exec itself; the runtime may change after the listing
ExecLaunchFailures(ref) ==
    {DaemonDown, NoSuch(ref), NotRunning(ref),
     Rejected(NumCode(126), <<>>, <<"OCI runtime exec failed: ">> \o PermissionDenied, "permission"),
     Rejected(NumCode(127), <<>>, <<"OCI runtime exec failed: executable file not found">>, "cmdnotfound")}

LaunchCauses == {"nocli", "daemon", "nosuch", "notrunning", "permission", "cmdnotfound", "shell"}

\* the set of things execAsync(cmd) may give back in runtime e
Run(cmd, e) ==
    IF cmd.kind = "probe" THEN
        IF e.cli THEN {Resolved(<<"Docker version 24.0.7">>, <<>>)} ELSE {NoCli}
    ELSE IF ~e.cli THEN {NoCli}
    ELSE IF ~e.daemon THEN {DaemonDown}
    ELSE IF cmd.kind = "ps" THEN
        LET out == Shown(e.containers, "-a" \in {cmd.line[i] : i \in 1..Len(cmd.line)})
        IN  {Resolved(out, <<>>)}
            \cup (IF out = <<>> THEN {}
                  ELSE {Interrupted(SubSeq(out, 1,
                            CHOOSE k \in 1..Len(out) :
                                out[k] = "\n" /\ \A j \in 1..(k - 1) : out[j] # "\n"))})
    ELSE
        LET p == ShellParse(cmd.line)
            argv == p.words
            flagsWithValue == {<<"--workdir">>, <<"--user">>, <<"--env">>, <<"--tail">>,
                               <<"--since">>, <<"--until">>, <<"--format">>}
            flags == {<<"-it">>, <<"--privileged">>, <<"--timestamps">>, <<"--no-stream">>}
            RECURSIVE FirstOperand(_)
            FirstOperand(i) ==
                IF i > Len(argv) THEN 0
                ELSE IF argv[i] \in flagsWithValue THEN FirstOperand(i + 2)
                ELSE IF argv[i] \in flags THEN FirstOperand(i + 1)
                ELSE i
            at == FirstOperand(3)
        IN  IF p.meta \/ p.unterminated \/ at = 0 THEN
                {Rejected(NumCode(2), <<>>, <<"sh: syntax error">>, "shell")}
            ELSE
                LET ref == argv[at]
                    found == Lookup(e.containers, ref)
                IN  IF found = <<>> THEN
                        {IF cmd.kind = "inspect" THEN InspectNoSuch(ref) ELSE NoSuch(ref)}
                    ELSE IF cmd.kind = "exec" THEN
                        IF ~found[1].running THEN {NotRunning(ref)}
                        ELSE UserCommandOutcomes \cup ExecLaunchFailures(ref)
                    ELSE IF cmd.kind = "inspect" THEN
                        {Resolved(InspectStdout(found[1]), <<>>), InspectNoSuch(ref)}
                    ELSE IF cmd.kind = "logs" THEN
                        {Resolved(o, r) : o \in Outputs, r \in {<<>>, <<"err">>}}
                        \cup {NoSuch(ref), Interrupted(<<"out">>)}
                    ELSE {Resolved(<<"CONTAINER\tCPU %">>, <<>>), NoSuch(ref),
                          Interrupted(<<"CONTAINER\tCPU %">>)}

----------------------------------------------------------------------------
(* docker-client.ts: what each method returns or throws, given what the
   process layer gave back for its command *)

Return(v) == [threw |-> FALSE, value |-> v]

Throw(e) == [threw |-> TRUE, error |-> e]

isDockerAvailable(proc) == proc.status = "resolved"

\* field.replace(/"/g, '')
StripQuotes(t) == SelectSeq(t, LAMBDA c : c # "\"")

\* field?.replace(/"/g, '') || ''
FieldOf(fields, i) == IF i <= Len(fields) THEN StripQuotes(fields[i]) ELSE <<>>

ContainerOf(fields) ==
    [id |-> FieldOf(fields, 1), name |-> FieldOf(fields, 2), image |-> FieldOf(fields, 3),
     status |-> FieldOf(fields, 4), ports |-> FieldOf(fields, 5),
     created |-> FieldOf(fields, 6), command |-> FieldOf(fields, 7)]

\* stdout.trim().split('\n').filter(line => line.length > 0).map(...)
ParseListing(stdout) ==
    LET lines == SelectSeq(Split(Trim(stdout), "\n"), LAMBDA l : Len(l) > 0)
    IN  [i \in 1..Len(lines) |-> ContainerOf(Split(lines[i], "\t"))]

listContainers(cmd, proc) ==
    IF proc.status = "resolved" THEN Return(ParseListing(proc.stdout))
    ELSE Throw(DockerError(<<"Failed to list containers: ">> \o CommandFailed(cmd.line, proc)))

\* a slip that joins the two channels without dropping an empty one
getContainerLogs_NoFilter(cmd, proc) ==
    IF proc.status = "resolved" THEN
        Return(Join(<<proc.stdout, proc.stderr>>, <<"\n">>))
    ELSE Throw(DockerError(<<"Failed to get container logs: ">> \o CommandFailed(cmd.line, proc)))

\* a slip that hands back what a failed command had printed
getContainerLogs_PartialOnFailure(cmd, proc) ==
    IF proc.status = "resolved" \/ proc.stdout # <<>> THEN
        Return(Join(SelectSeq(<<proc.stdout, proc.stderr>>, LAMBDA t : t # <<>>), <<"\n">>))
    ELSE Throw(DockerError(<<"Failed to get container logs: ">> \o CommandFailed(cmd.line, proc)))

getContainerLogs(cmd, proc) ==
    IF proc.status = "resolved" THEN
        Return(Join(SelectSeq(<<proc.stdout, proc.stderr>>, LAMBDA t : t # <<>>), <<"\n">>))
    ELSE Throw(DockerError(<<"Failed to get container logs: ">> \o CommandFailed(cmd.line, proc)))

\* JSON.parse(stdout)[0]: the first document of the array, as a value
JsonParseFirst(stdout) == [Id |-> SubSeq(stdout, 3, Len(stdout) - 2)]

\* JSON.stringify(value, null, 2)
JsonStringify(v) == <<"{\n  \"Id\": \"">> \o v.Id \o <<"\"\n}">>

inspectContainer(cmd, proc) ==
    IF proc.status = "resolved" THEN Return(JsonParseFirst(proc.stdout))
    ELSE Throw(DockerError(<<"Failed to inspect container: ">> \o CommandFailed(cmd.line, proc)))

getContainerStats(cmd, proc) ==
    IF proc.status = "resolved" THEN Return(proc.stdout)
    ELSE Throw(DockerError(<<"Failed to get container stats: ">> \o CommandFailed(cmd.line, proc)))

\* error.code || 1
TruthyCode(code) ==
    \/ code.type = "number" /\ code.n # 0
    \/ code.type = "string" /\ code.tag # ""

\* a slip that treats every rejection as a failure of the operation
execCommand_ThrowOnNonZero(cmd, proc) ==
    IF proc.status = "resolved" THEN
        Return([stdout |-> proc.stdout, stderr |-> proc.stderr, exitCode |-> NumCode(0)])
    ELSE Throw(DockerError(<<"Failed to execute command in container: ">>
                           \o CommandFailed(cmd.line, proc)))

execCommand(cmd, proc) ==
    IF proc.status = "resolved" THEN
        Return([stdout |-> proc.stdout, stderr |-> proc.stderr, exitCode |-> NumCode(0)])
    ELSE IF proc.streams THEN
        Return([stdout |-> proc.stdout, stderr |-> proc.stderr,
                exitCode |-> IF TruthyCode(proc.code) THEN proc.code ELSE NumCode(1)])
    ELSE Throw(DockerError(<<"Failed to execute command in container: ">>
                           \o CommandFailed(cmd.line, proc)))

\* containers.find(...): the first record of the listing that passes any of
\* the three tests; <<>> for undefined
findContainerByName(containers, name) ==
    LET hits == {i \in 1..Len(containers) :
                    \/ containers[i].name = name
                    \/ containers[i].name = <<"/">> \o name
                    \/ StartsWith(containers[i].id, name)}
    IN  IF hits = {} THEN <<>>
        ELSE <<containers[CHOOSE i \in hits : \A j \in hits : i <= j]>>

----------------------------------------------------------------------------
(* index.ts: the tool-call handler *)

ToolNames == {"docker_list_containers", "docker_read_logs", "docker_inspect_container",
              "docker_container_stats", "docker_exec_command"}

\* a slip that reports the first issue only
ErrorMessageOf_FirstOnly(error) ==
    IF error.name = "ZodError" THEN
        <<"Invalid arguments: ">>
        \o error.issues[1].path \o <<": ">> \o error.issues[1].message
    ELSE formatDockerError(error)

\* the text a response carries for an error caught by the handler
ErrorMessageOf(error) ==
    IF error.name = "ZodError" THEN
        <<"Invalid arguments: ">>
        \o Join([i \in 1..Len(error.issues) |->
                    error.issues[i].path \o <<": ">> \o error.issues[i].message],
                <<", ">>)
    ELSE formatDockerError(error)

\* a slip that lets the caught error go on to the dispatcher
ErrorResponse_Rethrow(error) ==
    [isError |-> TRUE, thrown |-> TRUE, text |-> error.message]

ErrorResponse(error) ==
    [isError |-> TRUE, thrown |-> FALSE, text |-> <<"Error: ">> \o ErrorMessageOf(error)]

TextResponse(text) == [isError |-> FALSE, thrown |-> FALSE, text |-> text]

\* an error the handler lets escape to the dispatcher
Escapes(error) == [isError |-> TRUE, thrown |-> TRUE, text |-> error.message]

\* Schema.parse(request.params.arguments) of each tool: its issues
SchemaIssues(name, args) ==
    CASE name = "docker_list_containers" -> ListContainersSchema(args)
      [] name = "docker_read_logs" -> ReadLogsSchema(args)
      [] name = "docker_inspect_container" -> InspectContainerSchema(args)
      [] name = "docker_container_stats" -> ContainerStatsSchema(args)
      [] name = "docker_exec_command" -> ExecCommandSchema(args)

\* a slip that fetches the running containers only for every tool
ListAll_RunningOnly(name, args) == name = "docker_list_containers" /\ args.all

\* a slip that searches all containers for stats and exec too
ListAll_Everything(name, args) == IF name = "docker_list_containers" THEN args.all ELSE TRUE

\* the argument each case passes to listContainers
ListAll(name, args) ==
    CASE name = "docker_list_containers" -> args.all
      [] name = "docker_read_logs" -> TRUE
      [] name = "docker_inspect_container" -> TRUE
      [] name = "docker_container_stats" -> FALSE
      [] name = "docker_exec_command" -> FALSE

\* the identifier each case gives to ContainerNotFoundError
NotFoundIdentifier(name, args) ==
    IF name \in {"docker_container_stats", "docker_exec_command"}
    THEN args.container \o <<" ", "(", "running", ")">>
    ELSE args.container

\* id.substring(0, 12)
Short(id) == SubSeq(id, 1, IF Len(id) < 12 THEN Len(id) ELSE 12)

\* where a step of the handler leaves it: the command it launches next, or
\* the response it returns
Launch(cmd, found) == [launch |-> <<cmd>>, respond |-> <<>>, found |-> found]

\* a slip that ends the handler without a response
Respond_Nothing(r) == [launch |-> <<>>, respond |-> <<>>, found |-> <<>>]

Respond(r) == [launch |-> <<>>, respond |-> <<r>>, found |-> <<>>]

\* a slip that leaves the arguments unchecked before the listing is fetched
AfterProbe_NoValidation(r, proc) ==
    IF ~isDockerAvailable(proc) THEN Respond(ErrorResponse(DockerNotAvailableError))
    ELSE IF r.name \notin ToolNames
    THEN Respond(ErrorResponse(PlainError(<<"Unknown tool: ">> \o <<r.name>>)))
    ELSE Launch(listContainers_Command(ListAll(r.name, r.args)), <<>>)

\* a slip that goes on to the listing whatever the probe gave
AfterProbe_IgnoreProbe(r, proc) ==
    IF r.name \notin ToolNames
    THEN Respond(ErrorResponse(PlainError(<<"Unknown tool: ">> \o <<r.name>>)))
    ELSE IF SchemaIssues(r.name, r.args) # <<>>
    THEN Respond(ErrorResponse(ZodError(SchemaIssues(r.name, r.args))))
    ELSE Launch(listContainers_Command(ListAll(r.name, r.args)), <<>>)

\* a slip that parses the arguments of the logs tool after its listing only
AfterProbe_LogsUnchecked(r, proc) ==
    IF ~isDockerAvailable(proc) THEN Respond(ErrorResponse(DockerNotAvailableError))
    ELSE IF r.name \notin ToolNames
    THEN Respond(ErrorResponse(PlainError(<<"Unknown tool: ">> \o <<r.name>>)))
    ELSE IF r.name # "docker_read_logs" /\ SchemaIssues(r.name, r.args) # <<>>
    THEN Respond(ErrorResponse(ZodError(SchemaIssues(r.name, r.args))))
    ELSE Launch(listContainers_Command(ListAll(r.name, r.args)), <<>>)

\* from the return of isDockerAvailable to the call of listContainers
AfterProbe(r, proc) ==
    IF ~isDockerAvailable(proc) THEN Respond(ErrorResponse(DockerNotAvailableError))
    ELSE IF r.name \notin ToolNames
    THEN Respond(ErrorResponse(PlainError(<<"Unknown tool: ">> \o <<r.name>>)))
    ELSE IF SchemaIssues(r.name, r.args) # <<>>
    THEN Respond(ErrorResponse(ZodError(SchemaIssues(r.name, r.args))))
    ELSE Launch(listContainers_Command(ListAll(r.name, r.args)), <<>>)

\* the table of the list tool; the blanks padEnd adds are left out
ListText(containers) ==
    LET row(c) == Join(<<Short(c.id), c.name, c.image, c.status,
                         IF c.ports = <<>> THEN <<"N/A">> ELSE c.ports, c.created>>,
                       <<" | ">>)
    IN  <<"Found ", ToString(Len(containers)), " container",
          IF Len(containers) # 1 THEN "s" ELSE "", ":\n\n">>
        \o Join(<<(<<"ID | Name | Image | Status | Ports | Created">>), <<"--">>>>
                \o [i \in 1..Len(containers) |-> row(containers[i])], <<"\n">>)

\* a slip that hands the caller's identifier to the stats method
OperationCommand_CallerTarget(r, container) ==
    CASE r.name = "docker_read_logs" ->
            getContainerLogs_Command(
                [containerId |-> FromListing(container.id),
                 lines |-> ParsedLines(r.args),
                 since |-> IF r.args.since = Absent THEN Absent
                           ELSE Present(FromCaller(r.args.since[1])),
                 until |-> IF r.args.until = Absent THEN Absent
                           ELSE Present(FromCaller(r.args.until[1])),
                 timestamps |-> r.args.timestamps])
      [] r.name = "docker_inspect_container" ->
            inspectContainer_Command(FromListing(container.id))
      [] r.name = "docker_container_stats" ->
            getContainerStats_Command(FromCaller(r.args.container))
      [] r.name = "docker_exec_command" ->
            execCommand_Command(
                [containerId |-> FromListing(container.id),
                 command |-> [i \in 1..Len(r.args.command) |-> FromCaller(r.args.command[i])],
                 privileged |-> r.args.privileged,
                 interactive |-> r.args.interactive,
                 workingDir |-> IF r.args.workingDir = Absent THEN Absent
                                ELSE Present(FromCaller(r.args.workingDir[1])),
                 env |-> IF r.args.env = Absent THEN Absent
                         ELSE Present([i \in 1..Len(r.args.env[1]) |->
                                          FromCaller(r.args.env[1][i])]),
                 user |-> IF r.args.user = Absent THEN Absent
                          ELSE Present(FromCaller(r.args.user[1]))])

\* the command of each case once the container is resolved
OperationCommand(r, container) ==
    CASE r.name = "docker_read_logs" ->
            getContainerLogs_Command(
                [containerId |-> FromListing(container.id),
                 lines |-> ParsedLines(r.args),
                 since |-> IF r.args.since = Absent THEN Absent
                           ELSE Present(FromCaller(r.args.since[1])),
                 until |-> IF r.args.until = Absent THEN Absent
                           ELSE Present(FromCaller(r.args.until[1])),
                 timestamps |-> r.args.timestamps])
      [] r.name = "docker_inspect_container" ->
            inspectContainer_Command(FromListing(container.id))
      [] r.name = "docker_container_stats" ->
            getContainerStats_Command(FromListing(container.id))
      [] r.name = "docker_exec_command" ->
            execCommand_Command(
                [containerId |-> FromListing(container.id),
                 command |-> [i \in 1..Len(r.args.command) |-> FromCaller(r.args.command[i])],
                 privileged |-> r.args.privileged,
                 interactive |-> r.args.interactive,
                 workingDir |-> IF r.args.workingDir = Absent THEN Absent
                                ELSE Present(FromCaller(r.args.workingDir[1])),
                 env |-> IF r.args.env = Absent THEN Absent
                         ELSE Present([i \in 1..Len(r.args.env[1]) |->
                                          FromCaller(r.args.env[1][i])]),
                 user |-> IF r.args.user = Absent THEN Absent
                          ELSE Present(FromCaller(r.args.user[1]))])

\* from the return of listContainers to the call of the operation's method
AfterListing(r, cmd, proc) ==
    LET listed == listContainers(cmd, proc)
    IN  IF listed.threw THEN Respond(ErrorResponse(listed.error))
        ELSE IF r.name = "docker_list_containers"
        THEN Respond(TextResponse(ListText(listed.value)))
        ELSE LET container == findContainerByName(listed.value, r.args.container)
             IN  IF container = <<>>
                 THEN Respond(ErrorResponse(
                          ContainerNotFoundError(NotFoundIdentifier(r.name, r.args))))
                 ELSE Launch(OperationCommand(r, container[1]), container)

\* `for container 'name' (short id):`
Heading(what, container) ==
    <<what, " container '">> \o container.name \o <<"' (">> \o Short(container.id)
    \o <<"):\n">>

CodeText(code) == IF code.type = "number" THEN ToString(code.n) ELSE code.tag

ExecText(r, container, res) ==
    Heading("Executed command in", container)
    \o <<"Command: ">> \o Join(r.args.command, SP) \o <<"\n">>
    \o <<"Exit Code: ", CodeText(res.exitCode), "\n\n">>
    \o (IF res.stdout # <<>> THEN <<"STDOUT:\n">> \o res.stdout \o <<"\n">> ELSE <<>>)
    \o (IF res.stderr # <<>> THEN <<"\nSTDERR:\n">> \o res.stderr ELSE <<>>)
    \o (IF res.stdout = <<>> /\ res.stderr = <<>> THEN <<"(No output)">> ELSE <<>>)

\* what the client method of each case gives for its command
MethodResult(r, cmd, proc) ==
    CASE r.name = "docker_read_logs" -> getContainerLogs(cmd, proc)
      [] r.name = "docker_inspect_container" -> inspectContainer(cmd, proc)
      [] r.name = "docker_container_stats" -> getContainerStats(cmd, proc)
      [] r.name = "docker_exec_command" -> execCommand(cmd, proc)

\* from the return of the operation's method to the response
AfterCommand(r, container, got) ==
    IF got.threw THEN ErrorResponse(got.error)
    ELSE CASE r.name = "docker_read_logs" ->
                TextResponse(Heading("Logs for", container) \o <<"\n">> \o got.value)
           [] r.name = "docker_inspect_container" ->
                TextResponse(Heading("Container inspection for", container) \o <<"\n">>
                             \o JsonStringify(got.value))
           [] r.name = "docker_container_stats" ->
                TextResponse(Heading("Resource usage statistics for", container)
                             \o <<"\n">> \o got.value)
           [] r.name = "docker_exec_command" ->
                TextResponse(ExecText(r, container, got.value))

----------------------------------------------------------------------------
(* index.ts: the resource read handler *)

ResourcePrefix == <<"docker://container/">>

\* uri.match(/^docker:\/\/container\/(.+)$/): <<id>> on a match, <<>> on none
ResourceMatch(uri) ==
    IF StartsWith(uri, ResourcePrefix) /\ Len(uri) > 1 /\ "\n" \notin {uri[i] : i \in 1..Len(uri)}
    THEN <<SubSeq(uri, 2, Len(uri))>>
    ELSE <<>>

ResourceStart(uri) ==
    IF ResourceMatch(uri) = <<>>
    THEN Respond(Escapes(PlainError(<<"Invalid resource URI: ">> \o uri)))
    ELSE Launch(inspectContainer_Command(FromCaller(ResourceMatch(uri)[1])), <<>>)

ResourceEnd(uri, got) ==
    IF got.threw
    THEN Escapes(PlainError(<<"Failed to read container resource: ">> \o got.error.message))
    ELSE [isError |-> FALSE, thrown |-> FALSE, text |-> JsonStringify(got.value)]

----------------------------------------------------------------------------
(* The runtimes and the requests of the model *)

Cafe == <<"c", "a", "f", "e">>

\* three containers: one whose id begins with the name of the second, and
\* one carrying that name in the slash-prefixed form
ContainerPool ==
    {[id |-> Cafe \o <<"1">>, name |-> <<"web">>],
     [id |-> <<"b", "e", "e", "f", "2">>, name |-> Cafe],
     [id |-> <<"d", "0", "0", "d", "5">>, name |-> <<"/">> \o Cafe]}

RuntimeContainers ==
    {[id |-> c.id, name |-> c.name, running |-> b] : c \in ContainerPool, b \in BOOLEAN}

\* the listings of docker ps -a: up to MaxContainers containers, ids distinct
Listings ==
    {l \in SeqsUpTo(RuntimeContainers, MaxContainers) :
        \A i, j \in 1..Len(l) : i # j => l[i].id # l[j].id}

Runtimes ==
    {[cli |-> c, daemon |-> d, containers |-> l] :
        c \in BOOLEAN, d \in BOOLEAN, l \in Listings}

Identifiers ==
    {Cafe,
     <<"web">>,
     <<"b", "e">>,
     <<"/", "x", " ">> \o IsNotRunning,
     <<>>,
     <<"web", ";", "x">>}

NoArgs ==
    [container |-> <<>>, lines |-> Absent, since |-> Absent, until |-> Absent,
     timestamps |-> FALSE, all |-> FALSE, command |-> <<>>, workingDir |-> Absent,
     env |-> Absent, user |-> Absent, privileged |-> FALSE, interactive |-> FALSE]

LogsArguments ==
    {NoArgs,
     [NoArgs EXCEPT !.lines = Present(Num(5)), !.since = Present(<<"1", "h">>),
                    !.timestamps = TRUE],
     [NoArgs EXCEPT !.until = Present(IsoDate2024)],
     [NoArgs EXCEPT !.lines = Present(Num(0))],
     [NoArgs EXCEPT !.since = Present(<<"yesterday">>), !.lines = Present(Num(10001))]}

ExecArguments ==
    {[NoArgs EXCEPT !.command = <<(<<"sh">>), <<"-c">>, <<"exit", " ", "7">>>>],
     [NoArgs EXCEPT !.command = <<(<<"echo">>), <<"hello", " ", "'", "world", "'">>>>,
                    !.workingDir = Present(<<"/", "app">>),
                    !.env = Present(<<(<<"KEY", "=", "v", " ", "$", "x">>)>>),
                    !.user = Present(<<"root">>),
                    !.privileged = TRUE, !.interactive = TRUE],
     [NoArgs EXCEPT !.command = <<>>],
     [NoArgs EXCEPT !.command = <<(<<"sh">>)>>, !.workingDir = Present(<<"app">>),
                    !.env = Present(<<(<<"KEY">>)>>)]}

Requests ==
    {[name |-> "docker_list_containers", args |-> [NoArgs EXCEPT !.all = b]] : b \in BOOLEAN}
    \cup {[name |-> "docker_read_logs", args |-> [a EXCEPT !.container = c]] :
             a \in LogsArguments, c \in Identifiers}
    \cup {[name |-> n, args |-> [NoArgs EXCEPT !.container = c]] :
             n \in {"docker_inspect_container", "docker_container_stats"}, c \in Identifiers}
    \cup {[name |-> "docker_exec_command", args |-> [a EXCEPT !.container = c]] :
             a \in ExecArguments, c \in Identifiers}
    \cup {[name |-> "docker_remove_container", args |-> NoArgs]}

ResourceUris ==
    {ResourcePrefix \o id : id \in {Cafe, Cafe \o <<"1">>, <<"x", ";", "reboot">>, <<"f", "f">>}}
    \cup {ResourcePrefix, <<"docker://image/", "web">>}

----------------------------------------------------------------------------
(* The handlers as steps between their awaits *)

Init ==
    /\ env \in Runtimes
    /\ pc = "idle"
    /\ req = <<>>
    /\ spawned = <<>>
    /\ procs = <<>>
    /\ resolved = <<>>
    /\ result = <<>>
    /\ response = <<>>
    /\ input = NoUnit
    /\ output = <<>>
    /\ calls = <<>>

\* apply a step's outcome: launch its command and wait, or respond
Take(step, waiting) ==
    /\ spawned' = spawned \o step.launch
    /\ response' = step.respond
    /\ pc' = IF step.launch # <<>> THEN waiting ELSE "done"

\* a tool call arrives: the handler calls isDockerAvailable and awaits it
CallTool ==
    /\ pc = "idle"
    /\ \E r \in Requests : req' = r
    /\ spawned' = <<isDockerAvailable_Command>>
    /\ procs' = <<>>
    /\ resolved' = <<>>
    /\ result' = <<>>
    /\ response' = <<>>
    /\ pc' = "probe"
    /\ UNCHANGED <<env, unitVars, calls>>

\* docker --version ends
ProbeReturns ==
    /\ pc = "probe"
    /\ \E proc \in Run(spawned[Len(spawned)], env) :
        /\ procs' = Append(procs, proc)
        /\ Take(AfterProbe(req, proc), "listing")
    /\ UNCHANGED <<env, req, resolved, result, unitVars, calls>>

\* docker ps ends
ListingReturns ==
    /\ pc = "listing"
    /\ \E proc \in Run(spawned[Len(spawned)], env) :
        LET step == AfterListing(req, spawned[Len(spawned)], proc)
        IN  /\ procs' = Append(procs, proc)
            /\ resolved' = step.found
            /\ Take(step, "command")
    /\ UNCHANGED <<env, req, result, unitVars, calls>>

\* the operation's command ends
CommandReturns ==
    /\ pc = "command"
    /\ \E proc \in Run(spawned[Len(spawned)], env) :
        LET got == MethodResult(req, spawned[Len(spawned)], proc)
        IN  /\ procs' = Append(procs, proc)
            /\ result' = <<got>>
            /\ response' = <<AfterCommand(req, resolved[1], got)>>
    /\ spawned' = spawned
    /\ pc' = "done"
    /\ UNCHANGED <<env, req, resolved, unitVars, calls>>

\* a resource read arrives: the handler calls inspectContainer and awaits it
ReadResource ==
    /\ pc = "idle"
    /\ \E uri \in ResourceUris :
        /\ req' = [name |-> "resource", uri |-> uri]
        /\ spawned' = ResourceStart(uri).launch
        /\ response' = ResourceStart(uri).respond
        /\ pc' = IF ResourceStart(uri).launch # <<>> THEN "resource" ELSE "done"
    /\ procs' = <<>>
    /\ resolved' = <<>>
    /\ result' = <<>>
    /\ UNCHANGED <<env, unitVars, calls>>

\* docker inspect of the resource read ends
ResourceReturns ==
    /\ pc = "resource"
    /\ \E proc \in Run(spawned[Len(spawned)], env) :
        LET got == inspectContainer(spawned[Len(spawned)], proc)
        IN  /\ procs' = Append(procs, proc)
            /\ result' = <<got>>
            /\ response' = <<ResourceEnd(req.uri, got)>>
    /\ spawned' = spawned
    /\ pc' = "done"
    /\ UNCHANGED <<env, req, resolved, unitVars, calls>>

\* the dispatcher sends the response; the invocation's locals are gone
Deliver ==
    /\ pc = "done"
    /\ pc' = "idle"
    /\ req' = <<>>
    /\ spawned' = <<>>
    /\ procs' = <<>>
    /\ resolved' = <<>>
    /\ result' = <<>>
    /\ response' = <<>>
    /\ UNCHANGED <<env, unitVars, calls>>

Next ==
    \/ CallTool
    \/ ProbeReturns
    \/ ListingReturns
    \/ CommandReturns
    \/ ReadResource
    \/ ResourceReturns
    \/ Deliver

Spec == Init /\ [][Next]_vars

----------------------------------------------------------------------------
(* Properties *)

\* a tool call is being served
InCall == pc \notin {"idle", "resource"} /\ req # <<>> /\ req.name # "resource"

\* the call in flight names a tool and its arguments break a validation rule
InvalidCall ==
    /\ InCall
    /\ req.name \in ToolNames
    /\ SchemaIssues(req.name, req.args) # <<>>

\* the call in flight names a tool that resolves a container, with valid arguments
ResolvingCall(names) ==
    /\ InCall
    /\ req.name \in names
    /\ SchemaIssues(req.name, req.args) = <<>>

\* the listing fetch of the call in flight has ended well
ListingFetched == Len(procs) >= 2 /\ procs[2].status = "resolved"

\* the records the call in flight got from its listing fetch
Listed == listContainers(spawned[2], procs[2]).value

\* record c passes one of the three tests of the resolver for identifier id
MatchesName(c, id) == c.name = id

MatchesSlashName(c, id) == c.name = <<"/">> \o id

MatchesIdPrefix(c, id) == StartsWith(c.id, id)

Matches(c, id) == MatchesName(c, id) \/ MatchesSlashName(c, id) \/ MatchesIdPrefix(c, id)

KindsSpawned == {spawned[i].kind : i \in 1..Len(spawned)}

\* C1: every caller-supplied value placed in a command line stands there in
\* the escaper's quoted form: parsed by the shell, its piece of the line is
\* exactly one word, the value itself, with no metacharacter acted on and no
\* character outside a quoted region.
C1_CallerValuesEscaped ==
    \A i \in 1..Len(spawned) :
        \A k \in 1..Len(spawned[i].parts) :
            LET part == spawned[i].parts[k]
                p == ShellParse(part.text)
            IN  part.from = "caller" =>
                    /\ p.words = <<part.value>>
                    /\ ~p.meta
                    /\ ~p.bare
                    /\ ~p.unterminated

\* C3 as stated: a call whose arguments break a validation rule spawns no
\* subprocess at all, the availability probe included, and ends with the
\* validation error.
C3_NothingSpawnedWhenInvalid ==
    InvalidCall =>
        /\ spawned = <<>>
        /\ pc = "done" =>
              StartsWith(response[1].text, <<"Error: ", "Invalid arguments: ">>)

\* C3 amended: a call whose arguments break a validation rule spawns the
\* availability probe and nothing else; it ends with the validation error
\* when the probe succeeds and with the Docker-not-available error when the
\* probe fails.
C3_OnlyProbeWhenInvalid ==
    InvalidCall =>
        /\ KindsSpawned = {"probe"}
        /\ Len(spawned) = 1
        /\ pc = "done" =>
              /\ response[1].isError
              /\ ~response[1].thrown
              /\ IF procs[1].status = "resolved"
                 THEN StartsWith(response[1].text, <<"Error: ", "Invalid arguments: ">>)
                 ELSE response[1].text = <<"Error: ">> \o DockerNotAvailableMessage

\* an exec call with an empty command has ended after a successful probe
C3_Witness ==
    /\ InvalidCall
    /\ pc = "done"
    /\ req.name = "docker_exec_command"
    /\ req.args.command = <<>>
    /\ procs[1].status = "resolved"
    /\ Includes(response[1].text, <<"Command must contain at least one element">>)

\* C4: with the daemon unreachable, a call of any of the five tools fetches
\* no listing and ends with the Docker-not-available error.
C4_DaemonDownShortCircuits ==
    (InCall /\ req.name \in ToolNames /\ ~env.daemon) =>
        /\ "ps" \notin KindsSpawned
        /\ pc = "done" => response[1].text = <<"Error: ">> \o DockerNotAvailableMessage

\* the user's command of the exec call in flight was launched and exited
\* with a status other than zero
ExecExitedNonZero ==
    /\ InCall
    /\ pc = "done"
    /\ req.name = "docker_exec_command"
    /\ Len(procs) = 3
    /\ procs[3].cause = "exit"

\* C5: when the user's command of an exec call exits with a non-zero status
\* N, the response is a normal result (no isError) that states exit code N
\* and carries the captured stdout and stderr.
C5_NonZeroExitIsResult ==
    ExecExitedNonZero =>
        /\ ~response[1].isError
        /\ ~response[1].thrown
        /\ ~result[1].threw
        /\ result[1].value.exitCode = procs[3].code
        /\ result[1].value.stdout = procs[3].stdout
        /\ result[1].value.stderr = procs[3].stderr
        /\ Includes(response[1].text, <<"Exit Code: ", ToString(procs[3].code.n), "\n\n">>)
        /\ Includes(response[1].text, <<"\nSTDERR:\n">> \o procs[3].stderr)

\* sh -c "exit 7" ended with status 7
C5_Witness ==
    /\ ExecExitedNonZero
    /\ procs[3].code = NumCode(7)
    /\ req.args.command = <<(<<"sh">>), <<"-c">>, <<"exit", " ", "7">>>>
    /\ Includes(response[1].text, <<"Exit Code: ", "7", "\n\n">>)

\* C6: when docker exec itself fails (daemon unreachable, permission denied,
\* command not found, container gone or stopped after it was resolved), the
\* exec call ends with an error response, never with a normal result.
C6_LaunchFailureIsError ==
    (/\ InCall
     /\ pc = "done"
     /\ req.name = "docker_exec_command"
     /\ Len(procs) = 3
     /\ procs[3].cause \in LaunchCauses)
    => (response[1].isError /\ result[1].threw)

\* C7: when a record of the fetched listing has the identifier as its name,
\* the resolver returns a record with that name; when none has but one has
\* the slash-prefixed name, it returns a record with the slash-prefixed name.
C7_RulePrecedence ==
    (/\ ResolvingCall(ToolNames \ {"docker_list_containers"})
     /\ ListingFetched)
    => LET id == req.args.container
           exact == \E i \in 1..Len(Listed) : MatchesName(Listed[i], id)
           slash == \E i \in 1..Len(Listed) : MatchesSlashName(Listed[i], id)
       IN  /\ exact => (resolved # <<>> /\ MatchesName(resolved[1], id))
           /\ (~exact /\ slash) => (resolved # <<>> /\ MatchesSlashName(resolved[1], id))

\* C8: a valid identifier that matches no record of the fetched listing ends
\* the call with an error that reads Container '<identifier>' not found, the
\* identifier carried as given (with the running-only note for stats and exec).
C8_NotFoundCarriesIdentifier ==
    (/\ ResolvingCall(ToolNames \ {"docker_list_containers"})
     /\ ListingFetched
     /\ pc = "done"
     /\ \A i \in 1..Len(Listed) : ~Matches(Listed[i], req.args.container))
    => /\ response[1].isError
       /\ Includes(response[1].text, <<"Container '">> \o req.args.container)
       /\ Includes(response[1].text, <<"' not found">>)

\* the identifier of the call matches a stopped container of the runtime and
\* no running one
MatchesStoppedOnly ==
    /\ \E i \in 1..Len(env.containers) :
          ~env.containers[i].running /\ Matches(env.containers[i], req.args.container)
    /\ \A i \in 1..Len(env.containers) :
          env.containers[i].running => ~Matches(env.containers[i], req.args.container)

\* C9: for stats and exec, an identifier that matches only a stopped
\* container launches neither docker stats nor docker exec, and once the
\* listing is fetched the call ends with Container '<identifier> (running)'
\* not found.
C9_StatsExecRunningOnly ==
    (/\ ResolvingCall({"docker_container_stats", "docker_exec_command"})
     /\ MatchesStoppedOnly)
    => /\ KindsSpawned \subseteq {"probe", "ps"}
       /\ resolved = <<>>
       /\ (pc = "done" /\ ListingFetched) =>
             /\ response[1].isError
             /\ response[1].text =
                   <<"Error: ", "Container '">> \o req.args.container
                   \o <<" ", "(", "running", ")", "' not found">>

\* a stats call and an exec call for a stopped container have ended so
C9_Witness ==
    /\ ResolvingCall({"docker_container_stats", "docker_exec_command"})
    /\ MatchesStoppedOnly
    /\ pc = "done"
    /\ ListingFetched
    /\ req.name = "docker_container_stats"
    /\ req.args.container = <<"web">>
    /\ Includes(response[1].text, <<"(", "running", ")">>)

\* the operand of a docker logs / inspect command line, as the shell hands it on
Operand(cmd) == ShellParse(cmd.line).words[3]

\* C10: for logs and inspect, once the listing is fetched, an identifier that
\* matches a container of the runtime, running or stopped, resolves to a
\* container of the runtime that matches it, and docker logs / docker inspect
\* is launched on that container's id; when the only match is a stopped
\* container, it is that one.
C10_LogsInspectAllContainers ==
    (/\ ResolvingCall({"docker_read_logs", "docker_inspect_container"})
     /\ ListingFetched
     /\ \E i \in 1..Len(env.containers) : Matches(env.containers[i], req.args.container))
    => /\ resolved # <<>>
       /\ \E i \in 1..Len(env.containers) :
             /\ env.containers[i].id = resolved[1].id
             /\ Matches(env.containers[i], req.args.container)
       /\ Len(spawned) = 3
       /\ spawned[3].kind = (IF req.name = "docker_read_logs" THEN "logs" ELSE "inspect")
       /\ Operand(spawned[3]) = resolved[1].id
       /\ \A i \in 1..Len(env.containers) :
             (/\ Matches(env.containers[i], req.args.container)
              /\ \A j \in 1..Len(env.containers) :
                    j # i => ~Matches(env.containers[j], req.args.container))
             => resolved[1].id = env.containers[i].id

\* the logs of a stopped container were read, a running one standing before
\* it in the listing
C10_Witness ==
    /\ ResolvingCall({"docker_read_logs"})
    /\ pc = "done"
    /\ Len(procs) = 3
    /\ Len(env.containers) = 2
    /\ env.containers[1].running
    /\ ~env.containers[2].running
    /\ Matches(env.containers[2], req.args.container)
    /\ ~Matches(env.containers[1], req.args.container)
    /\ resolved[1].id = env.containers[2].id
    /\ Operand(spawned[3]) = env.containers[2].id
    /\ ~response[1].isError

----------------------------------------------------------------------------
(* Failures of the runtime command, exit codes and the logs text *)

NonExecTools ==
    {"docker_list_containers", "docker_read_logs", "docker_inspect_container",
     "docker_container_stats"}

\* a list, logs, inspect or stats call, or a resource read (which inspects),
\* has ended and the runtime command that ran last in it had failed
RuntimeCommandFailed ==
    /\ pc = "done"
    /\ req # <<>>
    /\ req.name \in NonExecTools \cup {"resource"}
    /\ procs # <<>>
    /\ procs[Len(procs)].status = "rejected"

\* C11: for list, logs, inspect and stats, when the runtime command fails to
\* start or exits with a non-zero status the operation ends with an error
\* (the client method throws, the response has isError), and nothing the
\* failed command printed on stdout is given back.
C11_RuntimeFailureIsError ==
    RuntimeCommandFailed =>
        /\ response[1].isError
        /\ result # <<>> => result[1].threw
        /\ procs[Len(procs)].stdout # <<>> =>
              ~Includes(response[1].text, procs[Len(procs)].stdout)

\* docker logs of a resolved container failed after it had printed output
C11_Witness ==
    /\ RuntimeCommandFailed
    /\ req.name = "docker_read_logs"
    /\ Len(procs) = 3
    /\ procs[3].cause = "interrupted"
    /\ procs[3].stdout = <<"out">>
    /\ result[1].threw
    /\ response[1].isError

\* an exec call has ended with an ExecResult from execCommand
ExecReturned ==
    /\ InCall
    /\ pc = "done"
    /\ req.name = "docker_exec_command"
    /\ Len(procs) = 3
    /\ ~result[1].threw

\* C12: the exitCode of every ExecResult is a non-negative integer: 0 when
\* the launched process exited normally, the status the process layer
\* reports when it reports a number, and 1 only when it reports no code at
\* all; it is never a code that is not a number.
C12_ExitCodeIsStatus ==
    ExecReturned =>
        LET code == result[1].value.exitCode
            proc == procs[3]
        IN  /\ code.type = "number"
            /\ code.n >= 0
            /\ proc.status = "resolved" => code = NumCode(0)
            /\ (proc.status = "rejected" /\ proc.code.type = "number" /\ proc.code.n # 0)
                   => code = proc.code
            /\ (proc.status = "rejected" /\ code = NumCode(1) /\ proc.code # NumCode(1))
                   => proc.code = NullCode

\* docker logs of the logs call in flight has ended well
LogsFetched ==
    /\ InCall
    /\ pc = "done"
    /\ req.name = "docker_read_logs"
    /\ Len(procs) = 3
    /\ procs[3].status = "resolved"

\* C13: the logs result is stdout, one newline, stderr when both channels
\* have content; the channel with content alone, nothing added before or
\* after it, when the other is empty; and the empty text when both are empty.
C13_LogsJoin ==
    LogsFetched =>
        LET out == procs[3].stdout
            err == procs[3].stderr
        IN  /\ ~result[1].threw
            /\ (out # <<>> /\ err # <<>>) => result[1].value = out \o <<"\n">> \o err
            /\ (out # <<>> /\ err = <<>>) => result[1].value = out
            /\ (out = <<>> /\ err # <<>>) => result[1].value = err
            /\ (out = <<>> /\ err = <<>>) => result[1].value = <<>>

\* the container logged on stdout only
C13_Witness ==
    /\ LogsFetched
    /\ procs[3].stdout = <<"out">>
    /\ procs[3].stderr = <<>>
    /\ result[1].value = <<"out">>
    /\ ~response[1].isError

----------------------------------------------------------------------------
(* Unit check of the listing parser *)

\* most lines of a docker ps output
MaxLines == 2

\* the state before a unit operation is applied to one of the inputs
UnitInit(inputs) ==
    /\ input \in inputs
    /\ output = <<>>
    /\ env = [cli |-> TRUE, daemon |-> TRUE, containers |-> <<>>]
    /\ pc = "idle"
    /\ req = <<>>
    /\ spawned = <<>>
    /\ procs = <<>>
    /\ resolved = <<>>
    /\ result = <<>>
    /\ response = <<>>
    /\ calls = <<>>

\* the command field as the runtime prints it: in double quotes, a double
\* quote of the command itself escaped with a backslash
QuotedCommands ==
    {<<"\"", "nginx -g daemon off;", "\"">>,
     <<"\"", "sh -c ", "\\", "\"", "echo hi", "\\", "\"", "\"">>}

\* lines with all seven fields, with and without ports, the command quoted or
\* bare
FullLines ==
    {<<id, <<"web">>, <<"nginx">>, <<"Up", " ", "2", " ", "hours">>, ports,
       <<"2024-01-01">>, command>> :
        id \in {<<"abc123">>, <<"d", "e", "f", "4">>},
        ports \in {<<>>, <<"80/tcp">>},
        command \in QuotedCommands \cup {<<"nginx">>}}

\* lines of the model: full ones, ones cut after the second or the fourth
\* field, and the empty line
ListingLines ==
    FullLines
    \cup {SubSeq(l, 1, k) : l \in FullLines, k \in {2, 4}}
    \cup {<<>>}

\* the text of an output with the given lines
ListingText(lines) == Join([i \in 1..Len(lines) |-> PsLine(lines[i])], <<>>)

InitListing ==
    UnitInit({[op |-> "listContainers", arg |-> ls] : ls \in SeqsUpTo(ListingLines, MaxLines)})

ApplyListing ==
    /\ input.op = "listContainers"
    /\ output = <<>>
    /\ output' = <<ParseListing(ListingText(input.arg))>>
    /\ UNCHANGED <<input, handlerVars>>

NextListing == ApplyListing

SpecListing == InitListing /\ [][NextListing]_vars

\* a field without the double quotes that surround it
Unquoted(f) ==
    IF Len(f) >= 2 /\ f[1] = "\"" /\ f[Len(f)] = "\"" THEN SubSeq(f, 2, Len(f) - 1) ELSE f

\* the record of a line: the k-th field under the k-th name, empty when the
\* line has no k-th field
RecordOfLine(fields) ==
    LET at(k) == IF k <= Len(fields) THEN Unquoted(fields[k]) ELSE <<>>
    IN  [id |-> at(1), name |-> at(2), image |-> at(3), status |-> at(4),
         ports |-> at(5), created |-> at(6), command |-> at(7)]

\* C14: the parser yields one record for every non-empty line of the output,
\* in line order, each field under its own name (id, name, image, status,
\* ports, created, command), a missing field empty, an empty field in its
\* place, and of a field's characters only the double quotes around it removed.
C14_ParserFaithful ==
    output # <<>> =>
        LET lines == SelectSeq(input.arg, LAMBDA l : l # <<>>)
        IN  output[1] = [i \in 1..Len(lines) |-> RecordOfLine(lines[i])]

----------------------------------------------------------------------------
(* Unit check of the argument schemas: a tool call's arguments are parsed
   by the schema of its tool, as the handler does once the probe has
   succeeded *)

\* how far beyond the two limits of a line count the counts tried go
LinesMargin == 2

\* the line counts tried: every integer from LinesFrom to LinesTo
LinesFrom == 0 - LinesMargin

LinesTo == 10000 + LinesMargin

\* relative tokens, absolute dates, and texts that are neither
TimestampInputs ==
    {<<"1", "h">>, <<"30", "m">>, <<"5", "s">>, <<"7", "d">>, <<"1", "0", "h">>,
     <<"h">>, <<"m", "h">>, <<"yesterday">>, <<>>,
     IsoDate2024, IsoEpoch}

\* integers, and numbers half way between two integers
LinesInputs ==
    {Absent}
    \cup {Present(Num(n)) : n \in LinesFrom..LinesTo}
    \cup {Present([int |-> n, half |-> TRUE]) : n \in {-1, 0, 1, 9999, 10000}}

\* a hex digit, a letter that is none, the three marks a name may hold, the
\* slash, and two characters no pattern allows
IdAlphabet == {"a", "x", ".", "-", "_", "/", ";", " "}

IdentifierInputs == SeqsUpTo(IdAlphabet, MaxArgLen)

\* a command of n tokens, those at the positions in empty being empty
CommandOf(n, empty) == [i \in 1..n |-> IF i \in empty THEN <<>> ELSE <<"sh">>]

CommandInputs ==
    {CommandOf(n, {}) : n \in {0, 1, 2, CommandMax, CommandMax + 1}}
    \cup {CommandOf(n, {k}) : n \in {1, 2, CommandMax}, k \in {1, 2, CommandMax}}
    \cup {CommandOf(CommandMax + 1, {2})}

\* arguments that break several rules at once
ExecCombinations ==
    {[NoArgs EXCEPT !.container = c, !.command = cmd, !.workingDir = w, !.env = e,
                    !.user = u] :
        c \in {<<"web">>, <<>>, <<"web", ";", "x">>},
        cmd \in {CommandOf(1, {}), CommandOf(0, {}), CommandOf(2, {2})},
        w \in {Absent, Present(<<"/", "app">>), Present(<<"app">>), Present(<<>>)},
        e \in {Absent, Present(<<(<<"KEY", "=", "v">>)>>), Present(<<(<<"KEY">>)>>),
               Present(<<(<<"KEY", "=", "v">>), <<"1", "=", "v">>>>)},
        u \in {Absent, Present(<<"root">>), Present(<<>>), Present(<<"root", ":">>)}}

LogsCombinations ==
    {[NoArgs EXCEPT !.container = c, !.lines = l, !.since = s, !.until = u] :
        c \in {<<"web">>, <<>>, <<"web", ";", "x">>},
        l \in {Absent, Present(Num(0)), Present(Num(5)), Present(Num(10001)),
               Present([int |-> 1, half |-> TRUE])},
        s \in {Absent, Present(<<"1", "h">>), Present(<<"yesterday">>)},
        u \in {Absent, Present(IsoDate2024), Present(<<"h">>)}}

ValidateRequests ==
    {[name |-> "docker_read_logs",
      args |-> [NoArgs EXCEPT !.container = <<"web">>, !.since = Present(t)]] :
        t \in TimestampInputs}
    \cup {[name |-> "docker_read_logs",
           args |-> [NoArgs EXCEPT !.container = <<"web">>, !.until = Present(t)]] :
             t \in TimestampInputs}
    \cup {[name |-> "docker_read_logs",
           args |-> [NoArgs EXCEPT !.container = <<"web">>, !.lines = l]] :
             l \in LinesInputs}
    \cup {[name |-> "docker_inspect_container", args |-> [NoArgs EXCEPT !.container = c]] :
             c \in IdentifierInputs}
    \cup {[name |-> "docker_exec_command",
           args |-> [NoArgs EXCEPT !.container = <<"web">>, !.command = cmd]] :
             cmd \in CommandInputs}
    \cup {[name |-> "docker_exec_command", args |-> a] : a \in ExecCombinations}
    \cup {[name |-> "docker_read_logs", args |-> a] : a \in LogsCombinations}

InitValidate == UnitInit({[op |-> "parse", arg |-> r] : r \in ValidateRequests})

\* the handler from the return of a successful probe: the issues the schema
\* raises, the step the handler takes, and for a logs call that passes the
\* command line docker logs is given once a container is resolved
ApplyValidate ==
    /\ input.op = "parse"
    /\ output = <<>>
    /\ LET r == input.arg
           issues == SchemaIssues(r.name, r.args)
       IN  output' =
             <<[issues |-> issues,
                step |-> AfterProbe(r, Resolved(<<"Docker version 24.0.7">>, <<>>)),
                command |->
                    IF r.name = "docker_read_logs" /\ issues = <<>>
                    THEN <<OperationCommand(r, ContainerOf(<<(<<"abc123">>), <<"web">>>>)).line>>
                    ELSE <<>>]>>
    /\ UNCHANGED <<input, handlerVars>>

NextValidate == ApplyValidate

SpecValidate == InitValidate /\ [][NextValidate]_vars

\* the paths of the issues raised
IssuePaths == {output[1].issues[i].path : i \in 1..Len(output[1].issues)}

\* digits followed by one of s, m, h, d
IsRelativeDuration(t) ==
    /\ Len(t) >= 2
    /\ t[Len(t)] \in {"s", "m", "h", "d"}
    /\ \A i \in 1..(Len(t) - 1) : t[i] \in DigitAtoms

\* the text is a calendar timestamp Date.parse gives a time for
IsParseableDate(t) == DateParse(t) # <<>>

\* C15: a since or until value is accepted exactly when it is a relative
\* duration token or a parseable absolute timestamp; the timestamp of the
\* epoch origin, whose parsed value is 0, is accepted like any other.
C15_TimestampAccepted ==
    (output # <<>> /\ input.arg.name = "docker_read_logs") =>
        /\ input.arg.args.since # Absent =>
              (<<"since">> \notin IssuePaths
               <=> (\/ IsRelativeDuration(input.arg.args.since[1])
                    \/ IsParseableDate(input.arg.args.since[1])))
        /\ input.arg.args.until # Absent =>
              (<<"until">> \notin IssuePaths
               <=> (\/ IsRelativeDuration(input.arg.args.until[1])
                    \/ IsParseableDate(input.arg.args.until[1])))

\* the arguments of a logs call have been parsed
LogsParsed == output # <<>> /\ input.arg.name = "docker_read_logs"

\* C16: a line count is accepted exactly when it is an integer from 1 to
\* 10000; 0, 10001, negative numbers and numbers that are no integers are
\* rejected with an error message that names the lines field; with lines
\* left out nothing is raised for it and docker logs is given --tail 100.
C16_LinesRange ==
    LogsParsed =>
        LET lines == input.arg.args.lines
        IN  /\ lines # Absent =>
                  (<<"lines">> \notin IssuePaths
                   <=> (~lines[1].half /\ lines[1].int >= 1 /\ lines[1].int <= 10000))
            /\ <<"lines">> \in IssuePaths =>
                  /\ output[1].step.launch = <<>>
                  /\ output[1].step.respond[1].isError
                  /\ \A i \in 1..Len(output[1].issues) :
                        output[1].issues[i].path = <<"lines">> =>
                            Includes(output[1].step.respond[1].text,
                                     <<"lines", ": ">> \o output[1].issues[i].message)
            /\ lines = Absent =>
                  /\ <<"lines">> \notin IssuePaths
                  /\ output[1].command # <<>> =>
                        Includes(output[1].command[1], <<" ", "--tail", " ", "100">>)

\* the largest count allowed was accepted and handed to docker logs
C16_Witness ==
    /\ LogsParsed
    /\ input.arg.args.lines = Present(Num(10000))
    /\ output[1].issues = <<>>
    /\ Includes(output[1].command[1], <<" ", "--tail", " ", "10000">>)

\* the three shapes of an identifier
HasNameShape(c) ==
    /\ c[1] \in AlnumAtoms
    /\ \A i \in 1..Len(c) : c[i] \in AlnumAtoms \cup {".", "_", "-"}

HasHexShape(c) == \A i \in 1..Len(c) : c[i] \in HexAtoms

HasSlashShape(c) == c[1] = "/"

\* C17: a container identifier is accepted exactly when it is not empty and
\* has the name shape (an alphanumeric, then alphanumerics, dots,
\* underscores, hyphens), or is made of hex digits only, or begins with a
\* slash; every other text, the empty one included, is rejected.
C17_IdentifierAccepted ==
    (output # <<>> /\ input.arg.name \in ToolNames \ {"docker_list_containers"}) =>
        LET c == input.arg.args.container
        IN  <<"container">> \notin IssuePaths
            <=> (c # <<>> /\ (HasNameShape(c) \/ HasHexShape(c) \/ HasSlashShape(c)))

\* a slash followed by characters no name may hold was accepted
C17_Witness ==
    /\ output # <<>>
    /\ input.arg.name = "docker_inspect_container"
    /\ Len(input.arg.args.container) = MaxArgLen
    /\ input.arg.args.container[1] = "/"
    /\ \E i \in 1..MaxArgLen : input.arg.args.container[i] = ";"
    /\ output[1].issues = <<>>
    /\ output[1].step.launch # <<>>

\* the arguments of an exec call have been parsed
ExecParsed == output # <<>> /\ input.arg.name = "docker_exec_command"

\* an issue was raised for the command or for one of its tokens
CommandRejected == \E p \in IssuePaths : p[1] = "command"

\* C18: the command of an exec call is accepted exactly when it has from 1
\* to 100 tokens and none of them is empty; when it is rejected the handler
\* answers with an error and launches nothing further.
C18_CommandAccepted ==
    ExecParsed =>
        LET cmd == input.arg.args.command
        IN  /\ ~CommandRejected
               <=> (/\ Len(cmd) >= 1
                    /\ Len(cmd) <= 100
                    /\ \A i \in 1..Len(cmd) : cmd[i] # <<>>)
            /\ CommandRejected =>
                  /\ output[1].step.launch = <<>>
                  /\ output[1].step.respond[1].isError

\* a command of 101 tokens, none empty, was rejected for its length
C18_Witness ==
    /\ ExecParsed
    /\ Len(input.arg.args.command) = 101
    /\ \A i \in 1..101 : input.arg.args.command[i] # <<>>
    /\ CommandRejected
    /\ output[1].step.launch = <<>>
    /\ Includes(output[1].step.respond[1].text,
                <<"command", ": ", "Command cannot exceed 100 arguments">>)

\* the violations of the arguments of a call, field by field: each a field
\* path with the reason the field's own rule gives
Violations(path, reasons) == {[path |-> path, message |-> reasons[i]] : i \in 1..Len(reasons)}

FieldViolations(r) ==
    (IF r.name \in ToolNames \ {"docker_list_containers"}
     THEN Violations(<<"container">>, ContainerIdentifierSchema(r.args.container))
     ELSE {})
    \cup (IF r.name = "docker_read_logs"
          THEN (IF r.args.lines = Absent THEN {}
                ELSE Violations(<<"lines">>, LogLinesSchema(r.args.lines[1])))
               \cup (IF r.args.since = Absent THEN {}
                     ELSE Violations(<<"since">>, TimestampSchema(r.args.since[1])))
               \cup (IF r.args.until = Absent THEN {}
                     ELSE Violations(<<"until">>, TimestampSchema(r.args.until[1])))
          ELSE {})
    \cup (IF r.name = "docker_exec_command"
          THEN (IF Len(r.args.command) < 1
                THEN {[path |-> <<"command">>,
                       message |-> <<"Command must contain at least one element">>]}
                ELSE {})
               \cup (IF Len(r.args.command) > 100
                     THEN {[path |-> <<"command">>,
                            message |-> <<"Command cannot exceed 100 arguments">>]}
                     ELSE {})
               \cup {[path |-> <<"command", ".", ToString(i - 1)>>,
                      message |-> <<"Command arguments cannot be empty">>] :
                        i \in {k \in 1..Len(r.args.command) : r.args.command[k] = <<>>}}
               \cup (IF r.args.workingDir = Absent THEN {}
                     ELSE Violations(<<"workingDir">>, WorkingDirSchema(r.args.workingDir[1])))
               \cup (IF r.args.env = Absent THEN {}
                     ELSE UNION {Violations(<<"env", ".", ToString(i - 1)>>,
                                            EnvVarSchema(r.args.env[1][i])) :
                                    i \in 1..Len(r.args.env[1])})
               \cup (IF r.args.user = Absent THEN {}
                     ELSE Violations(<<"user">>, UserSchema(r.args.user[1])))
          ELSE {})

\* the fields that have a violation
ViolatedFields(r) == {v.path : v \in FieldViolations(r)}

\* C19: when the arguments of a call break several rules at once, the one
\* error message the caller gets lists every violation, each as its field
\* path, a colon and its reason, and not the first of them only.
C19_AllViolationsListed ==
    (output # <<>> /\ FieldViolations(input.arg) # {}) =>
        /\ output[1].step.launch = <<>>
        /\ Len(output[1].step.respond) = 1
        /\ output[1].step.respond[1].isError
        /\ StartsWith(output[1].step.respond[1].text, <<"Error: ", "Invalid arguments: ">>)
        /\ \A v \in FieldViolations(input.arg) :
              Includes(output[1].step.respond[1].text, v.path \o <<": ">> \o v.message)
        /\ Len(output[1].issues) = Cardinality(FieldViolations(input.arg))

\* an exec call whose container, command, working directory, environment and
\* user all break their rules
C19_Witness ==
    /\ ExecParsed
    /\ {<<"container">>, <<"command">>, <<"workingDir">>, <<"env", ".", "0">>, <<"user">>}
           \subseteq ViolatedFields(input.arg)
    /\ Includes(output[1].step.respond[1].text,
                <<"user", ": ", "User must be in format user[:group] or uid[:gid]">>)
    /\ Includes(output[1].step.respond[1].text,
                <<"container", ": ", "Container identifier cannot be empty">>)

----------------------------------------------------------------------------
(* Unit check of the error classifier *)

\* most phrases of a failure message
MaxPhrases == 3

\* the five texts the classifier looks for, and four it does not: a word, a
\* capitalised and a shortened near miss, and another kind of missing object
Phrases ==
    {PermissionDenied, CannotConnect, IsNotRunning, NoSuchContainer, CommandNotFound,
     <<"boom">>, <<"Permission", " ", "denied">>, <<"not", " ", "running">>,
     <<"No such image">>}

\* a failure message: phrases with a colon and a blank between them
MessageOf(phrases) == Join(phrases, <<": ">>)

InitClassify ==
    UnitInit({[op |-> "formatDockerError", arg |-> ps] : ps \in SeqsUpTo(Phrases, MaxPhrases)})

ApplyClassify ==
    /\ input.op = "formatDockerError"
    /\ output = <<>>
    /\ output' = <<formatDockerError(DockerError(MessageOf(input.arg)))>>
    /\ UNCHANGED <<input, handlerVars>>

NextClassify == ApplyClassify

SpecClassify == InitClassify /\ [][NextClassify]_vars

\* the message holds the phrase
Says(phrase) == \E i \in 1..Len(input.arg) : input.arg[i] = phrase

\* C20: the classifier gives one outcome by the first rule that matches, the
\* rules taken in the order permission denied or cannot connect to the
\* daemon, is not running, No such container, command not found; a message
\* that matches none is given back as it is.
C20_ClassifierPrecedence ==
    (output # <<>> /\ input.op = "formatDockerError") =>
        LET permission == Says(PermissionDenied) \/ Says(CannotConnect)
            stopped == Says(IsNotRunning)
            missing == Says(NoSuchContainer)
            noCommand == Says(CommandNotFound)
        IN  /\ permission => output[1] = PermissionDeniedText
            /\ (~permission /\ stopped) => output[1] = NotRunningText
            /\ (~permission /\ ~stopped /\ missing) => output[1] = NotFoundText
            /\ (~permission /\ ~stopped /\ ~missing /\ noCommand)
                   => output[1] = NotInstalledText
            /\ (~permission /\ ~stopped /\ ~missing /\ ~noCommand)
                   => output[1] = MessageOf(input.arg)

\* a message that matches the last three rules, the latest rule first
C20_Witness ==
    /\ output # <<>>
    /\ input.arg = <<CommandNotFound, NoSuchContainer, IsNotRunning>>
    /\ output[1] = NotRunningText

----------------------------------------------------------------------------
(* The resource read against the inspect tool *)

\* a resource read has ended with a document
ResourceDocument ==
    /\ pc = "done"
    /\ req # <<>>
    /\ req.name = "resource"
    /\ ~response[1].thrown

\* the call of the inspect tool with the given container argument
InspectCall(id) ==
    [name |-> "docker_inspect_container", args |-> [NoArgs EXCEPT !.container = id]]

\* the documents the inspect tool can end with in runtime e for that argument:
\* its listing fetch, the resolver, docker inspect of the resolved id
InspectToolDocuments(e, id) ==
    LET r == InspectCall(id)
        ps == listContainers_Command(ListAll(r.name, r.args))
        launched == {s \in {AfterListing(r, ps, p) : p \in Run(ps, e)} : s.launch # <<>>}
        got == UNION {{inspectContainer(s.launch[1], q) : q \in Run(s.launch[1], e)} :
                         s \in launched}
    IN  {JsonStringify(g.value) : g \in {x \in got : ~x.threw}}

\* C21: the document a read of docker://container/<id> returns is the
\* document the inspect tool returns for the container argument <id>, in
\* every runtime, also when another container is named <id> or has an id
\* that begins with <id>.
C21_ResourceSameAsInspect ==
    ResourceDocument =>
        InspectToolDocuments(env, ResourceMatch(req.uri)[1]) = {response[1].text}

----------------------------------------------------------------------------
(* The processes of one tool call: their order, their target, and what
   becomes of a failure *)

OperationKinds == {"logs", "inspect", "stats", "exec"}

\* C24: within one tool call the processes are launched in the order probe,
\* then at most one listing fetch, then at most one operation command, each
\* at most once; a step that failed is not launched again and nothing is
\* launched after it.
C24_FixedOrderNoRetry ==
    InCall =>
        /\ Len(spawned) \in 1..3
        /\ spawned[1].kind = "probe"
        /\ Len(spawned) >= 2 => spawned[2].kind = "ps"
        /\ Len(spawned) = 3 => spawned[3].kind \in OperationKinds
        /\ Len(procs) \in {Len(spawned) - 1, Len(spawned)}
        /\ \A i \in 1..Len(procs) : procs[i].status = "rejected" => Len(spawned) = i

\* a stats call has ended after three processes, the last of which failed
C24_Witness ==
    /\ InCall
    /\ pc = "done"
    /\ req.name = "docker_container_stats"
    /\ Len(spawned) = 3
    /\ Len(procs) = 3
    /\ procs[3].status = "rejected"
    /\ response[1].isError

\* the values of the caller that the methods place in a command line beside
\* the container
CallerExtras(args) ==
    (IF args.since = Absent THEN {} ELSE {args.since[1]})
    \cup (IF args.until = Absent THEN {} ELSE {args.until[1]})
    \cup (IF args.workingDir = Absent THEN {} ELSE {args.workingDir[1]})
    \cup (IF args.user = Absent THEN {} ELSE {args.user[1]})
    \cup (IF args.env = Absent THEN {} ELSE {args.env[1][i] : i \in 1..Len(args.env[1])})
    \cup {args.command[i] : i \in 1..Len(args.command)}

\* the places of a command line that hold a value taken from the listing
ListingParts(cmd) == {k \in 1..Len(cmd.parts) : cmd.parts[k].from = "listing"}

\* C26: in the logs, inspect, stats and exec tools the container placed in
\* the runtime command is the id of the record the resolver returned from the
\* listing fetched in the same call; the identifier the caller gave is placed
\* in no command line.
C26_TargetIsResolvedId ==
    (InCall /\ Len(spawned) = 3) =>
        /\ resolved # <<>>
        /\ resolved = findContainerByName(Listed, req.args.container)
        /\ \E k \in 1..Len(spawned[3].parts) :
              /\ ListingParts(spawned[3]) = {k}
              /\ spawned[3].parts[k].value = resolved[1].id
              /\ ShellParse(spawned[3].parts[k].text).words = <<resolved[1].id>>
        /\ \A i \in 1..3 : \A k \in 1..Len(spawned[i].parts) :
              spawned[i].parts[k].from = "caller" =>
                  spawned[i].parts[k].value \in CallerExtras(req.args)

\* the statistics of the container the caller named web were read by its id
C26_Witness ==
    /\ InCall
    /\ pc = "done"
    /\ req.name = "docker_container_stats"
    /\ req.args.container = <<"web">>
    /\ Len(spawned) = 3
    /\ resolved[1].name = <<"web">>
    /\ Operand(spawned[3]) = Cafe \o <<"1">>
    /\ ~response[1].isError

\* C28: a tool call whose arguments fail validation launches neither the
\* listing fetch nor the command of its operation; the one process it may
\* have run is the availability probe.
C28_InvalidLaunchesOnlyProbe ==
    InvalidCall =>
        \A i \in 1..Len(spawned) :
            /\ spawned[i].kind \notin {"ps"} \cup OperationKinds
            /\ spawned[i] = isDockerAvailable_Command

\* a logs call for a container of the runtime, with a line count of zero, has
\* ended with the validation error after the probe alone
C28_Witness ==
    /\ InvalidCall
    /\ pc = "done"
    /\ req.name = "docker_read_logs"
    /\ req.args.lines = Present(Num(0))
    /\ \E i \in 1..Len(env.containers) : Matches(env.containers[i], req.args.container)
    /\ spawned = <<isDockerAvailable_Command>>
    /\ procs[1].status = "resolved"
    /\ Includes(response[1].text, <<"lines", ": ", "Lines must be at least 1">>)

\* a step of the tool call in flight has raised a failure
ProbeFailed == Len(procs) >= 1 /\ procs[1].status = "rejected"

UnknownTool == req.name \notin ToolNames

ListingFailed == Len(procs) >= 2 /\ procs[2].status = "rejected"

ResolverMissed ==
    /\ ListingFetched
    /\ req.name \in ToolNames \ {"docker_list_containers"}
    /\ resolved = <<>>

CommandThrew == result # <<>> /\ result[1].threw

FailureRaised ==
    \/ ProbeFailed
    \/ UnknownTool
    \/ InvalidCall
    \/ ListingFailed
    \/ ResolverMissed
    \/ CommandThrew

\* C29: the tool-call handler lets no exception go on to the dispatcher: a
\* failure raised at any step (probe, validation, resolver miss, listing or
\* command failure, unknown tool name) ends the call with a response that
\* has isError true and a text that begins with 'Error: '.
C29_FailuresBecomeResponses ==
    (InCall /\ pc = "done") =>
        /\ Len(response) = 1
        /\ ~response[1].thrown
        /\ FailureRaised =>
              /\ response[1].isError
              /\ StartsWith(response[1].text, <<"Error: ">>)

\* a call of a tool the server does not have has ended with the error text
C29_Witness ==
    /\ InCall
    /\ pc = "done"
    /\ UnknownTool
    /\ ~response[1].thrown
    /\ response[1].isError
    /\ response[1].text = <<"Error: ", "Unknown tool: ", "docker_remove_container">>

----------------------------------------------------------------------------
(* Unit check of the exec command line *)

\* most tokens of a command
MaxTokens == 3

\* tokens of a command: two plain words and one with a blank, quotes and a
\* semicolon
CommandTokens == {<<"sh">>, <<"-c">>, <<"echo", " ", "'", "x", "'", ";", "reboot">>}

EnvEntries == <<(<<"KEY", "=", "v", " ", "$", "x">>), <<"B", "=", "2">>>>

\* the options the exec case can pass: values that passed ExecCommandSchema
ExecOptions ==
    {[containerId |-> Cafe \o <<"1">>, command |-> c, interactive |-> i,
      workingDir |-> w, user |-> u, privileged |-> p, env |-> e] :
        c \in SeqsUpTo(CommandTokens, MaxTokens) \ {<<>>},
        i \in BOOLEAN,
        w \in {Absent, Present(<<"/", "app">>), Present(<<"/", "my", " ", "dir">>)},
        u \in {Absent, Present(<<"root">>)},
        p \in BOOLEAN,
        e \in {Absent, Present(<<>>), Present(EnvEntries), Present(SubSeq(EnvEntries, 1, 1)),
               Present(<<EnvEntries[2], EnvEntries[1]>>)}}

InitExecLine == UnitInit({[op |-> "execCommand", arg |-> o] : o \in ExecOptions})

\* the options as the exec case hands them over, each value with its origin
Handed(o) ==
    [containerId |-> FromListing(o.containerId),
     command |-> [i \in 1..Len(o.command) |-> FromCaller(o.command[i])],
     privileged |-> o.privileged,
     interactive |-> o.interactive,
     workingDir |-> IF o.workingDir = Absent THEN Absent
                    ELSE Present(FromCaller(o.workingDir[1])),
     env |-> IF o.env = Absent THEN Absent
             ELSE Present([i \in 1..Len(o.env[1]) |-> FromCaller(o.env[1][i])]),
     user |-> IF o.user = Absent THEN Absent ELSE Present(FromCaller(o.user[1]))]

ApplyExecLine ==
    /\ input.op = "execCommand"
    /\ output = <<>>
    /\ output' = <<execCommand_Command(Handed(input.arg))>>
    /\ UNCHANGED <<input, handlerVars>>

NextExecLine == ApplyExecLine

SpecExecLine == InitExecLine /\ [][NextExecLine]_vars

\* a flag word before each of the values
Flagged(flag, values) ==
    LET n == Len(values)
    IN  [k \in 1..(2 * n) |-> IF k % 2 = 1 THEN <<flag>> ELSE values[k \div 2]]

\* the words the claim lists for the options o
ExecWords(o) ==
    <<(<<"docker">>), <<"exec">>>>
    \o (IF o.interactive THEN <<(<<"-it">>)>> ELSE <<>>)
    \o (IF o.workingDir # Absent THEN <<(<<"--workdir">>), o.workingDir[1]>> ELSE <<>>)
    \o (IF o.user # Absent THEN <<(<<"--user">>), o.user[1]>> ELSE <<>>)
    \o (IF o.privileged THEN <<(<<"--privileged">>)>> ELSE <<>>)
    \o (IF o.env # Absent THEN Flagged("--env", o.env[1]) ELSE <<>>)
    \o <<o.containerId>>
    \o o.command

\* C25: the exec command line holds, in this order, docker exec, -it only if
\* interactive, --workdir and the directory only if one is given, --user and
\* the user only if one is given, --privileged only if privileged, --env and
\* the entry for each env entry in the given order, the container id, and
\* every command token in its order; each value and each token is escaped by
\* itself, so the shell hands on after the container id exactly the tokens
\* of the caller's command.
C25_ExecLineOrder ==
    (input.op = "execCommand" /\ output # <<>>) =>
        LET p == ShellParse(output[1].line)
            o == input.arg
        IN  /\ p.words = ExecWords(o)
            /\ ~p.meta
            /\ ~p.unterminated
            /\ SubSeq(p.words, Len(p.words) - Len(o.command) + 1, Len(p.words)) = o.command
            /\ \A k \in 1..Len(output[1].parts) :
                  output[1].parts[k].from # "program" =>
                      output[1].parts[k].text = escapeShellArg(output[1].parts[k].value)

\* every option is given, with two env entries and a command of three tokens,
\* one of them with a blank, quotes and a semicolon
C25_Witness ==
    /\ input.op = "execCommand"
    /\ output # <<>>
    /\ input.arg.interactive
    /\ input.arg.privileged
    /\ input.arg.workingDir = Present(<<"/", "my", " ", "dir">>)
    /\ input.arg.user # Absent
    /\ input.arg.env = Present(EnvEntries)
    /\ input.arg.command = <<(<<"sh">>), <<"-c">>, <<"echo", " ", "'", "x", "'", ";", "reboot">>>>
    /\ Len(ShellParse(output[1].line).words) = 16

----------------------------------------------------------------------------
(* Every tool call returns *)

\* The steps ProbeReturns, ListingReturns, CommandReturns and ResourceReturns
\* as pc shows them.  Run gives a non-empty set for every command, so each of
\* these steps is possible exactly while the handler awaits that process.
ProbeEnds == pc = "probe" /\ pc' \in {"listing", "done"}

ListingEnds == pc = "listing" /\ pc' \in {"command", "done"}

CommandEnds == pc = "command" /\ pc' = "done"

InspectEnds == pc = "resource" /\ pc' = "done"

\* every launched process ends, and the continuation that awaits it runs
SpecLive ==
    /\ Spec
    /\ WF_pc(ProbeEnds)
    /\ WF_pc(ListingEnds)
    /\ WF_pc(CommandEnds)
    /\ WF_pc(InspectEnds)

\* a tool call awaits one of its processes
Suspended == InCall /\ pc \in {"probe", "listing", "command"}

\* the tool call in flight has returned one response
Returned == InCall /\ pc = "done" /\ Len(response) = 1

\* C27: when every launched process ends, every tool call returns exactly one
\* response, a result or an error: no call stays suspended for ever, none
\* returns before its last process has ended, and a response once returned is
\* not replaced by another.
C27_EveryCallReturnsOnce ==
    /\ Suspended ~> Returned
    /\ [](Suspended => response = <<>>)
    /\ [][Returned => (response' = response \/ pc' = "idle")]_vars

\* an exec call has returned a result after its three processes ended
C27_Witness ==
    /\ Returned
    /\ req.name = "docker_exec_command"
    /\ Len(procs) = 3
    /\ \A i \in 1..3 : procs[i].status = "resolved"
    /\ ~response[1].isError

----------------------------------------------------------------------------
(* Tool calls served side by side.  The handler is an async function: a call
   runs until it awaits a process, and while it waits the event loop runs the
   continuations of other calls.  Each call's variables (args, containers,
   container, the method's result) are locals of its own handler activation;
   the DockerClient they share has no fields.  A call belongs to the session
   of the transport it arrived on. *)

\* most calls in flight at once
MaxCalls == 2

soloVars == <<pc, req, spawned, procs, resolved, result, response, unitVars>>

\* the locals of a call that has not arrived
Idle ==
    [pc |-> "idle", req |-> <<>>, spawned |-> <<>>, procs |-> <<>>, resolved |-> <<>>,
     result |-> <<>>, response |-> <<>>, session |-> "open"]

\* two running containers
ConcurrentRuntime ==
    [cli |-> TRUE, daemon |-> TRUE,
     containers |-> <<[id |-> Cafe \o <<"1">>, name |-> <<"web">>, running |-> TRUE],
                      [id |-> <<"b", "e", "e", "f", "2">>, name |-> Cafe, running |-> TRUE]>>]

ConcurrentRequests ==
    {[name |-> "docker_container_stats", args |-> [NoArgs EXCEPT !.container = <<"web">>]],
     [name |-> "docker_inspect_container", args |-> [NoArgs EXCEPT !.container = Cafe]]}

\* n calls may be in flight, none has arrived
InitCalls(n) ==
    /\ env = ConcurrentRuntime
    /\ calls = [i \in 1..n |-> Idle]
    /\ pc = "idle"
    /\ req = <<>>
    /\ spawned = <<>>
    /\ procs = <<>>
    /\ resolved = <<>>
    /\ result = <<>>
    /\ response = <<>>
    /\ input = NoUnit
    /\ output = <<>>

\* Take, on the locals of one call
Taken(c, step, waiting) ==
    [c EXCEPT !.spawned = @ \o step.launch,
              !.response = step.respond,
              !.pc = IF step.launch # <<>> THEN waiting ELSE "done"]

\* a slip: a client that keeps the last listing it fetched and hands it to
\* whichever call asks next
ListingHandedBack_Cached(cs, i, proc) ==
    LET fetched == {j \in DOMAIN cs : j # i /\ Len(cs[j].procs) >= 2}
    IN  IF fetched = {} THEN proc ELSE cs[CHOOSE j \in fetched : TRUE].procs[2]

\* what the await of listContainers hands back to call i: the outcome of the
\* docker ps this call launched, whatever the other calls hold
ListingHandedBack(cs, i, proc) == proc

\* a tool call arrives on an open session
CallArrives(i) ==
    /\ calls[i].pc = "idle"
    /\ \E r \in ConcurrentRequests :
        calls' = [calls EXCEPT ![i] = [Idle EXCEPT !.req = r,
                                                   !.spawned = <<isDockerAvailable_Command>>,
                                                   !.pc = "probe"]]
    /\ UNCHANGED <<env, soloVars>>

CallProbeReturns(i) ==
    /\ calls[i].pc = "probe"
    /\ \E proc \in Run(calls[i].spawned[Len(calls[i].spawned)], env) :
        calls' = [calls EXCEPT ![i] =
                     Taken([@ EXCEPT !.procs = Append(@, proc)],
                           AfterProbe(calls[i].req, proc), "listing")]
    /\ UNCHANGED <<env, soloVars>>

CallListingReturns(i) ==
    /\ calls[i].pc = "listing"
    /\ \E proc \in Run(calls[i].spawned[Len(calls[i].spawned)], env) :
        LET step == AfterListing(calls[i].req, calls[i].spawned[Len(calls[i].spawned)],
                                 ListingHandedBack(calls, i, proc))
        IN  calls' = [calls EXCEPT ![i] =
                         Taken([@ EXCEPT !.procs = Append(@, proc), !.resolved = step.found],
                               step, "command")]
    /\ UNCHANGED <<env, soloVars>>

CallCommandReturns(i) ==
    /\ calls[i].pc = "command"
    /\ \E proc \in Run(calls[i].spawned[Len(calls[i].spawned)], env) :
        LET got == MethodResult(calls[i].req, calls[i].spawned[Len(calls[i].spawned)], proc)
        IN  calls' = [calls EXCEPT ![i] =
                         [@ EXCEPT !.procs = Append(@, proc),
                                   !.result = <<got>>,
                                   !.response = <<AfterCommand(calls[i].req,
                                                               calls[i].resolved[1], got)>>,
                                   !.pc = "done"]]
    /\ UNCHANGED <<env, soloVars>>

\* the response is handed to the transport; the locals of the call are gone
CallDelivered(i) ==
    /\ calls[i].pc = "done"
    /\ calls' = [calls EXCEPT ![i] = Idle]
    /\ UNCHANGED <<env, soloVars>>

\* the session of call i closes while the call is in flight: onclose removes
\* the transport from activeTransports and does nothing else
TransportCloses(i) ==
    /\ calls[i].pc # "idle"
    /\ calls[i].session = "open"
    /\ calls' = [calls EXCEPT ![i].session = "closed"]
    /\ UNCHANGED <<env, soloVars>>

\* outside the server the k-th container is stopped or started
RuntimeChanges(k) ==
    /\ k \in 1..Len(env.containers)
    /\ env' = [env EXCEPT !.containers[k].running = ~@]
    /\ UNCHANGED <<calls, soloVars>>

NextConcurrent ==
    \/ \E i \in 1..MaxCalls : CallArrives(i)
    \/ \E i \in 1..MaxCalls : CallProbeReturns(i)
    \/ \E i \in 1..MaxCalls : CallListingReturns(i)
    \/ \E i \in 1..MaxCalls : CallCommandReturns(i)
    \/ \E i \in 1..MaxCalls : CallDelivered(i)
    \/ RuntimeChanges(1)

InitConcurrent == InitCalls(MaxCalls)

SpecConcurrent == InitConcurrent /\ [][NextConcurrent]_vars

\* one call and the session it arrived on
NextSession ==
    \/ CallArrives(1)
    \/ CallProbeReturns(1)
    \/ CallListingReturns(1)
    \/ CallCommandReturns(1)
    \/ CallDelivered(1)
    \/ TransportCloses(1)
    \/ \E k \in 1..Len(env.containers) : RuntimeChanges(k)

InitSession == InitCalls(1)

SpecSession == InitSession /\ [][NextSession]_vars

\* call i has got its listing and looks for a container in it
Resolving(i) ==
    /\ Len(calls[i].procs) >= 2
    /\ calls[i].procs[2].status = "resolved"
    /\ calls[i].req.name # "docker_list_containers"

\* the records of the docker ps that call i launched itself
OwnListing(i) == listContainers(calls[i].spawned[2], calls[i].procs[2]).value

\* C22: with tool calls interleaved in any way, each call resolves its
\* identifier against the listing it fetched itself in that call and against
\* no other, and a step of one call reads and changes nothing of another
\* call: its listing, its resolved record and its result stay as they were.
C22_CallsShareNothing ==
    /\ [](\A i \in DOMAIN calls :
            Resolving(i) =>
                calls[i].resolved
                    = findContainerByName(OwnListing(i), calls[i].req.args.container))
    /\ [][\A i, j \in DOMAIN calls :
            (i # j /\ calls'[i] # calls[i]) => calls'[j] = calls[j]]_vars

\* two calls for the statistics of web are in flight; one fetched its listing
\* while web ran and resolved it, the other fetched its own after web was
\* stopped and found nothing
C22_Witness ==
    /\ calls[1].req # <<>>
    /\ calls[1].req = calls[2].req
    /\ calls[1].req.name = "docker_container_stats"
    /\ Resolving(1)
    /\ Resolving(2)
    /\ OwnListing(1) # OwnListing(2)
    /\ calls[1].resolved # <<>>
    /\ calls[1].pc = "command"
    /\ calls[2].resolved = <<>>
    /\ calls[2].response[1].isError

\* C23: when the session of a call closes while a process of the call is
\* still running, that process is terminated: no call of a closed session
\* goes on awaiting a process.
C23_ClosedSessionTerminates ==
    \A i \in DOMAIN calls :
        calls[i].session = "closed" => calls[i].pc \notin {"probe", "listing", "command"}

====
